---- MODULE Spec2Model ----
(***************************************************************************)
(* A model of the search core of Jotoba: the bounded output builder, the   *)
(* completion request normalisation and validation, the sentence-reader    *)
(* producer's gate and the furigana reconciler of a sentence part.         *)
(*                                                                         *)
(* Strings are sequences of Unicode code points; a character's class and   *)
(* its UTF-8 width are computed from the code point as the source does.    *)
(***************************************************************************)
EXTENDS Integers, Sequences, FiniteSets, TLC

VARIABLES
    ob_limit,    \* OutputBuilder: the `len` handed to OutputBuilder::new
    ob_filter,   \* OutputBuilder.filter, as the set of items it returns true for
    ob_p,        \* OutputBuilder.p, the entries the container holds
    ob_pushed,   \* every ResultItem handed to push so far, in call order
    ob_ret,      \* what the last call of push returned (FALSE before the first)
    req_input,   \* completions Request.input
    req_hashtag, \* completions Request.hashtag
    req_lang,    \* what query::parser::lang::parse answers for the input
    req_valid,   \* the result of validate ("pending" before the call)
    req_adjusted, \* the result of adjust: its status and the new Request.input
    sr_query_str,   \* SReaderProducer.query.query_str
    sr_q_lang,      \* SReaderProducer.query.q_lang
    sr_form,        \* SReaderProducer.query.form
    sr_is_regex,    \* what query.is_regex() answers
    sr_parsed,      \* SReaderProducer.parsed, the kind of ParseResult
    sr_word_exists, \* what word_exists(query_str) answers against the word index
    sr_asked,       \* whether should_run has been called
    sr_should_run,  \* the result of should_run (FALSE before the call)
    part_morphemes, \* Part.morphemes: each surface, and what add_fn answers for it
    part_furigana,  \* Part.furigana
    part_set,       \* whether set_furigana has been called
    w_s, \* the string handed to the first width conversion
    w_out, \* the string after the conversions applied so far
    w_ops, \* the conversions applied so far, in call order
    mq_text, \* the text handed to make_query
    mq_dict, \* the index dictionary: the known n-grams, the i-th has term-id i
    mq_called, \* whether make_query has been called
    mq_query, \* what make_query returned
    ws_q, \* word Search.query: the fields a word search reads
    ws_env, \* what the indexes, the parser and the guessers answer
    ws_pc, \* do_word_search's position: "native", "gloss" or "done"
    ws_native, \* what native_results returned
    ws_override, \* Query.language_override of the running gloss_results
    ws_gloss, \* what gloss_results returned
    ws_result, \* what do_word_search returned
    ws_trace, \* the last call of native_search by native_results and by the romaji fallback
    cp_query, \* the completion Query: query_str and q_lang
    cp_answers, \* what the suggestion indexes answer: [1] for the query, [2] for its katakana
    cp_pc, \* suggestions' position: "first", "second" or "done"
    cp_response, \* the first attempt's result
    cp_tried, \* the query strings handed to try_word_suggestions, in call order
    cp_ret, \* what suggestions returned
    tg_query, \* the sentence Query of a tag-only search: tags, settings, page_offset
    tg_sentences, \* the sentence store, in storage order
    tg_called, \* whether tag_only::search has been called
    tg_result, \* how the call ended and the SentenceResult it returned
    cc_store, \* the shared word store and index: the words it holds
    cc_req, \* per request: its query's parse result, the selected word, the limit
    cc_pc, \* per request: the position of its search
    cc_out, \* per request: its OutputBuilder
    uid_sense, \* the sense_id handed to to_unique_id
    uid_gloss, \* the gloss_id handed to to_unique_id
    uid_pc, \* "pair", "id" once to_unique_id has run, "back" after from_unique_id
    uid_id, \* the u16 to_unique_id returned
    uid_back, \* the pair from_unique_id returned for uid_id
    sg_word, \* Word.senses: for each sense its glosses
    sg_sense_pos, \* SenseGlossIter.sense_pos
    sg_gloss_pos, \* SenseGlossIter.gloss_pos
    sg_yielded, \* what the calls of next returned so far, in call order
    sg_panicked, \* whether a call of next failed its assert!
    tp_text, \* the string handed to text_parts
    tp_called, \* whether text_parts has been called and its iterator drained
    tp_parts, \* the parts the iterator yielded, in order
    fo_a, \* the first word ranked
    fo_b, \* the second word ranked
    fo_pos, \* the part of speech of the morpheme, if known
    fo_morph, \* the morpheme the words are ranked for
    fo_ranker, \* which ranker has scored the two words ("none" before)
    fo_score_a, \* the score of the first word
    fo_score_b, \* the score of the second word
    pd_parsed, \* what the parser made of the query
    pd_parts, \* the parts of the sentence, or the one inflected word
    pd_word_index, \* the word index the request asks for
    pd_limit, \* the page limit of the request
    pd_store, \* the words of the store
    pd_pc, \* how far produce has come
    pd_out, \* the output builder of the request
    pd_log \* the texts searched so far and the side channel set, in order

ob_vars == <<ob_limit, ob_filter, ob_p, ob_pushed, ob_ret>>

req_vars == <<req_input, req_hashtag, req_lang, req_valid, req_adjusted>>

sr_vars == <<sr_query_str, sr_q_lang, sr_form, sr_is_regex, sr_parsed,
             sr_word_exists, sr_asked, sr_should_run>>

part_vars == <<part_morphemes, part_furigana, part_set>>

w_vars == <<w_s, w_out, w_ops>>

mq_vars == <<mq_text, mq_dict, mq_called, mq_query>>

ws_vars == <<ws_q, ws_env, ws_pc, ws_native, ws_override, ws_gloss,
             ws_result,
             ws_trace>>

cp_vars == <<cp_query, cp_answers, cp_pc, cp_response, cp_tried, cp_ret>>

tg_vars == <<tg_query, tg_sentences, tg_called, tg_result>>

cc_vars == <<cc_store, cc_req, cc_pc, cc_out>>

uid_vars == <<uid_sense, uid_gloss, uid_pc, uid_id, uid_back>>

sg_vars == <<sg_word, sg_sense_pos, sg_gloss_pos, sg_yielded, sg_panicked>>

tp_vars == <<tp_text, tp_called, tp_parts>>

fo_vars == <<fo_a, fo_b, fo_pos, fo_morph, fo_ranker, fo_score_a,
             fo_score_b>>

pd_vars == <<pd_parsed, pd_parts, pd_word_index, pd_limit, pd_store, pd_pc,
             pd_out, pd_log>>

vars == <<ob_limit, ob_filter, ob_p, ob_pushed, ob_ret,
          req_input, req_hashtag, req_lang, req_valid, req_adjusted,
          sr_query_str, sr_q_lang, sr_form, sr_is_regex, sr_parsed,
          sr_word_exists, sr_asked, sr_should_run,
          part_morphemes, part_furigana, part_set,
          w_vars,
          mq_vars,
          ws_vars,
          cp_vars,
          tg_vars,
          cc_vars,
          uid_vars,
          sg_vars,
          tp_vars,
          fo_vars,
          pd_vars>>

(***************************************************************************)
(* Generic helpers                                                         *)
(***************************************************************************)
\* All sequences over S of length 0..n
SeqsUpTo(S, n) == UNION {[1..m -> S] : m \in 0..n}

(***************************************************************************)
(* OutputBuilder  (lib/search/src/executor/out_builder.rs)                 *)
(***************************************************************************)
\* Bounds of the builder model
MaxPushes == 4

Items == {"a", "b", "c"}
Relevances == {1, 2, 3}
Limits == {1, 2}

\* ResultItem<I>: an item and its relevance; equality and hash are the item's
ResultItem(item, relevance) == [item |-> item, relevance |-> relevance]

ResultItems == {ResultItem(i, r) : i \in Items, r \in Relevances}

\* The order of two container entries: higher relevance first, and among equal
\* relevances the one inserted first
Before(a, b) ==
    \/ a.relevance > b.relevance
    \/ a.relevance = b.relevance /\ a.seq < b.seq

\* The entry of a non-empty container that every other entry is before
Worst(p) == CHOOSE w \in p : \A e \in p \ {w} : Before(e, w)

\* The same container without the identity check
ContainerInsertNoDedup(p, cap, ri, seq) ==
    LET new == [item |-> ri.item, relevance |-> ri.relevance, seq |-> seq]
    IN  IF Cardinality(p) < cap
        THEN p \cup {new}
        ELSE IF ri.relevance > Worst(p).relevance
        THEN (p \ {Worst(p)}) \cup {new}
        ELSE p

\* StableUniquePrioContainerMax::insert with capacity cap: an item that is held
\* already is replaced by a copy of higher relevance only; a full container gives
\* up its worst entry for an item of higher relevance only.
ContainerInsert(p, cap, ri, seq) ==
    LET new == [item |-> ri.item, relevance |-> ri.relevance, seq |-> seq]
        same == {e \in p : e.item = ri.item}
    IN  IF same # {}
        THEN LET old == CHOOSE e \in same : TRUE
             IN  IF ri.relevance > old.relevance THEN (p \ {old}) \cup {new} ELSE p
        ELSE IF Cardinality(p) < cap
        THEN p \cup {new}
        ELSE IF ri.relevance > Worst(p).relevance
        THEN (p \ {Worst(p)}) \cup {new}
        ELSE p

\* OutputBuilder::new: the capacity the container is created with
NewCapacityOffByOne(len) == len + 1

NewCapacity(len) == len

\* OutputBuilder::push: <<the container after the call, the returned bool>>
PushInvertedFilter(p, cap, filter, ri, seq) ==
    IF ri.item \in filter
    THEN <<ContainerInsert(p, cap, ri, seq), TRUE>>
    ELSE <<p, FALSE>>

PushResult(p, cap, filter, ri, seq) ==
    IF ~(ri.item \in filter)
    THEN <<ContainerInsert(p, cap, ri, seq), TRUE>>
    ELSE <<p, FALSE>>

(***************************************************************************)
(* Characters  (lib/japanese/src/lib.rs, impl JapaneseExt for char)        *)
(***************************************************************************)
\* Code points the inputs are built from
HIRA_I == \H3044          \* hiragana i
HIRA_KU == \H304F         \* hiragana ku
HIRA_SA == \H3055         \* hiragana sa
HIRA_TSU == \H3063        \* small hiragana tsu
HIRA_A == \H3042          \* hiragana a
HIRA_N == \H3093          \* hiragana n, the replacement of FW_N
FW_N == \HFF4E            \* fullwidth latin small n
FW_K == \HFF4B            \* fullwidth latin small k
HYPHEN == \H2D            \* '-', a symbol of one byte
CJK_EXT_B == \H20000      \* first ideograph of extension B, four bytes
ASCII_A == \H61           \* 'a'
SPACE == \H20             \* ' '
KANJI_IKU == \H884C       \* the kanji of iku
KANJI_SAKI == \H5148      \* the kanji of saki
BRACKET_OPEN == \H5B      \* '['
PIPE == \H7C              \* '|'
BRACKET_CLOSE == \H5D     \* ']'

is_hiragana(c) == c >= \H3040 /\ c <= \H309F

is_katakana(c) == c >= \H30A0 /\ c <= \H30FF

is_kana(c) == is_hiragana(c) \/ is_katakana(c)

is_kanji(c) ==
    \/ (c >= \H3400 /\ c <= \H4DBF)
    \/ (c >= \H4E00 /\ c <= \H9FFF)
    \/ (c >= \HF900 /\ c <= \HFAFF)
    \/ (c >= \HFF10 /\ c <= \HFF19)
    \/ (c >= \H20000 /\ c <= \H2A6DF)
    \/ c = \H29E8A

is_symbol(c) ==
    \/ (c >= \H3000 /\ c <= \H303F)
    \/ (c >= \H0370 /\ c <= \H03FF)
    \/ (c >= \H25A0 /\ c <= \H25FF)
    \/ (c >= \HFF01 /\ c <= \HFF0F)
    \/ (c >= \HFF1A /\ c <= \HFF20)
    \/ (c >= \HFF3B /\ c <= \HFF40)
    \/ (c >= \HFF5B /\ c <= \HFF5E)
    \/ c = \H002D
    \/ c = \H3005
    \/ c = \H00D7

is_roman_letter(c) ==
    \/ (c >= \HFF01 /\ c <= \HFF5A)
    \/ (c >= \H2000 /\ c <= \H206F)
    \/ (c >= \H20000 /\ c <= \H2A6DF)
    \/ c = \H2010
    \/ c = \H2212

is_japanese(c) == is_kana(c) \/ is_kanji(c) \/ is_symbol(c) \/ is_roman_letter(c)

\* char::get_text_type
get_text_type(c) ==
    IF is_symbol(c) THEN "Symbol"
    ELSE IF is_kana(c) THEN "Kana"
    ELSE IF is_kanji(c) \/ is_roman_letter(c) THEN "Kanji"
    ELSE "Other"

is_of_type(c, ct) == get_text_type(c) = ct

\* str::has_kanji and str::is_japanese
str_has_kanji(s) == \E i \in DOMAIN s : is_kanji(s[i])

str_is_japanese(s) == \A i \in DOMAIN s : is_japanese(s[i])

\* str::is_kana: every character is a kana (so is the empty string)
str_is_kana(s) == \A i \in DOMAIN s : is_kana(s[i])

\* char::len_utf8: the bytes of the character's UTF-8 encoding
len_utf8(c) ==
    IF c < \H80 THEN 1 ELSE IF c < \H800 THEN 2 ELSE IF c < \H10000 THEN 3 ELSE 4

\* str::len: the bytes of a string
RECURSIVE byte_len(_)
byte_len(s) == IF s = <<>> THEN 0 ELSE len_utf8(Head(s)) + byte_len(Tail(s))

\* char::is_whitespace, as str::trim uses it
is_whitespace(c) ==
    \/ c = \H20
    \/ (c >= \H09 /\ c <= \H0D)
    \/ c = \H85
    \/ c = \HA0
    \/ c = \H1680
    \/ (c >= \H2000 /\ c <= \H200A)
    \/ c = \H2028
    \/ c = \H2029
    \/ c = \H202F
    \/ c = \H205F
    \/ c = \H3000

RECURSIVE trim_start(_)
trim_start(s) ==
    IF s # <<>> /\ is_whitespace(Head(s)) THEN trim_start(Tail(s)) ELSE s

RECURSIVE trim_end(_)
trim_end(s) ==
    IF s # <<>> /\ is_whitespace(s[Len(s)])
    THEN trim_end(SubSeq(s, 1, Len(s) - 1))
    ELSE s

\* str::trim
trim(s) == trim_end(trim_start(s))

\* utils::real_string_len: the number of code points
real_string_len(s) == Len(s)

(***************************************************************************)
(* Completion requests  (lib/api/src/completions/request.rs)               *)
(***************************************************************************)
\* Bounds of the request model: the free-form inputs and the long runs
MaxInputLen == 3
MaxRunLen == 39

\* The longest query validate accepts
MaxQueryLen == 37

ReqAlphabet == {HIRA_A, FW_N, FW_K, HYPHEN, CJK_EXT_B, ASCII_A, SPACE}

\* n copies of c
Rep(c, n) == [i \in 1..n |-> c]

\* Inputs long enough to reach the length limit, with and without blanks around
LongInputs ==
    {Rep(SPACE, l) \o Rep(HIRA_A, n) \o Rep(SPACE, t) :
        l \in 0..1, n \in (MaxQueryLen - 2)..MaxRunLen, t \in 0..1}

ReqInputs == SeqsUpTo(ReqAlphabet, MaxInputLen) \cup LongInputs

\* query::parser::lang::parse: a string of japanese characters only is Japanese,
\* one without any is not, and a mixed one is either
LangChoices(s) ==
    IF s = <<>> THEN {"Japanese", "Undetected"}
    ELSE IF str_is_japanese(s) THEN {"Japanese"}
    ELSE IF \E i \in DOMAIN s : is_japanese(s[i]) THEN {"Japanese", "Foreign"}
    ELSE {"Foreign", "Undetected"}

\* validate without the trim
validate_untrimmed(input, hashtag) ==
    LET query_len == real_string_len(input)
    IN  IF (query_len < 1 /\ ~hashtag) \/ query_len > MaxQueryLen
        THEN "BadRequest"
        ELSE "Ok"

\* validate
validate(input, hashtag) ==
    LET query_len == real_string_len(trim(input))
    IN  IF (query_len < 1 /\ ~hashtag) \/ query_len > MaxQueryLen
        THEN "BadRequest"
        ELSE "Ok"

\* str::replace of every FW_N by HIRA_N
replace_n(s) == [i \in DOMAIN s |-> IF s[i] = FW_N THEN HIRA_N ELSE s[i]]

ends_with(s, c) == s # <<>> /\ s[Len(s)] = c

\* query_str.chars().rev().take(2): the last two characters, the last one first
last_chars(s) ==
    IF Len(s) >= 2 THEN <<s[Len(s)], s[Len(s) - 1]>>
    ELSE IF Len(s) = 1 THEN <<s[1]>>
    ELSE <<>>

\* &s[..cut]: the prefix of s that is cut bytes long; slicing inside a character
\* panics
slice_to(s, cut) ==
    LET at == {n \in 0..Len(s) : byte_len(SubSeq(s, 1, n)) = cut}
    IN  IF at = {}
        THEN [status |-> "panic", input |-> <<>>]
        ELSE [status |-> "ok", input |-> SubSeq(s, 1, CHOOSE n \in at : TRUE)]

\* adjust
adjust(input, lang) ==
    LET query_len == real_string_len(input)
        query_str == IF lang = "Japanese" /\ ends_with(input, FW_N)
                     THEN replace_n(input)
                     ELSE input
        last == last_chars(query_str)
    IN  IF /\ lang = "Japanese"
           /\ ~(\E i \in DOMAIN last : ~is_japanese(last[i]))
           /\ query_len > 1
           /\ last # <<>>
        THEN LET roman == SelectSeq(last, is_roman_letter)
                 len == byte_len(roman)
             IN  slice_to(query_str, byte_len(query_str) - len)
        ELSE [status |-> "ok", input |-> query_str]

(***************************************************************************)
(* Sentence-reader producer                                                *)
(* (lib/search/src/word/producer/japanese/sentence_reader.rs)              *)
(***************************************************************************)
\* Bound of the producer model: the longest query
SRMaxLen == 4

\* The length gate one character too low
NoSentenceLenShort == 3 - 1

\* Queries of at most this many code points never reach the sentence reader
NoSentenceLen == 3

SRAlphabet == {HIRA_A, KANJI_IKU, ASCII_A}

QueryForms == {"Normal", "KanjiReading", "TagOnly"}

ParseResults == {"None", "InflectedWord", "Sentence"}

\* should_run with the test of the word index the wrong way round
should_run_exists_flipped(parsed, q_lang, form, is_regex, query_str, exists) ==
    IF \/ parsed = "None"
       \/ q_lang # "Japanese"
       \/ form # "Normal"
       \/ is_regex
       \/ query_str = <<>>
    THEN FALSE
    ELSE IF parsed = "InflectedWord" THEN TRUE
    ELSE IF real_string_len(query_str) <= NoSentenceLen THEN FALSE
    ELSE exists

\* SReaderProducer::should_run; exists is what word_exists(query_str) returns
should_run(parsed, q_lang, form, is_regex, query_str, exists) ==
    IF \/ parsed = "None"
       \/ q_lang # "Japanese"
       \/ form # "Normal"
       \/ is_regex
       \/ query_str = <<>>
    THEN FALSE
    ELSE IF parsed = "InflectedWord" THEN TRUE
    ELSE IF real_string_len(query_str) <= NoSentenceLen THEN FALSE
    ELSE ~exists

(***************************************************************************)
(* Furigana of a sentence part                                             *)
(* (lib/sentence_reader/src/sentence/part.rs)                              *)
(***************************************************************************)
\* Bound of the part model: the morphemes of a part
MaxMorphemes == 2

\* Concatenation of a sequence of strings
RECURSIVE concat(_)
concat(ss) == IF ss = <<>> THEN <<>> ELSE Head(ss) \o concat(Tail(ss))

\* The first position of c in s, Len(s) + 1 when there is none
index_of(s, c) ==
    LET at == {i \in DOMAIN s : s[i] = c}
    IN  IF at = {} THEN Len(s) + 1 ELSE CHOOSE i \in at : \A j \in at : i <= j

\* A furigana segment: a [kanji|kana] pair, or a plain kana run
Pair(kanji, kana) == [has_kanji |-> TRUE, kanji |-> kanji, kana |-> kana]

Plain(kana) == [has_kanji |-> FALSE, kanji |-> <<>>, kana |-> kana]

\* SentencePartRef::encode
encode(fp) ==
    IF fp.has_kanji
    THEN <<BRACKET_OPEN>> \o fp.kanji \o <<PIPE>> \o fp.kana \o <<BRACKET_CLOSE>>
    ELSE fp.kana

\* furigana::parse::from_str: the segments of an encoded furigana string
RECURSIVE from_str(_)
from_str(s) ==
    IF s = <<>> THEN <<>>
    ELSE IF Head(s) = BRACKET_OPEN
    THEN LET close == index_of(s, BRACKET_CLOSE)
             inner == SubSeq(s, 2, close - 1)
             pipe == index_of(inner, PIPE)
         IN  <<Pair(SubSeq(inner, 1, pipe - 1), SubSeq(inner, pipe + 1, Len(inner)))>>
             \o from_str(SubSeq(s, close + 1, Len(s)))
    ELSE LET open == index_of(s, BRACKET_OPEN)
         IN  <<Plain(SubSeq(s, 1, open - 1))>> \o from_str(SubSeq(s, open, Len(s)))

\* japanese::all_words_with_ct: the maximal runs of characters of type ct
RECURSIVE words_with_ct(_, _, _)
words_with_ct(inp, ct, curr) ==
    LET done == IF curr # <<>> THEN <<curr>> ELSE <<>>
    IN  IF inp = <<>> THEN done
        ELSE IF is_of_type(Head(inp), ct)
        THEN words_with_ct(Tail(inp), ct, Append(curr, Head(inp)))
        ELSE done \o words_with_ct(Tail(inp), ct, <<>>)

all_words_with_ct(inp, ct) == words_with_ct(inp, ct, <<>>)

\* The loop of merge_furigana over the segments of furi
RECURSIVE merge_parts(_, _, _, _)
merge_parts(parts, kana_paths, kanji_paths, furi_out) ==
    IF parts = <<>> THEN [some |-> TRUE, text |-> furi_out]
    ELSE LET furi_part == Head(parts)
             n == Len(furi_part.kanji)
         IN  IF ~furi_part.has_kanji
             THEN IF kana_paths # <<>>
                  THEN merge_parts(Tail(parts), Tail(kana_paths), kanji_paths,
                                   furi_out \o Head(kana_paths))
                  ELSE merge_parts(Tail(parts), kana_paths, kanji_paths, furi_out)
             ELSE IF n > Len(kanji_paths)
             THEN [some |-> FALSE, text |-> <<>>]
             ELSE merge_parts(Tail(parts), kana_paths,
                              SubSeq(kanji_paths, n + 1, Len(kanji_paths)),
                              furi_out \o encode(Pair(SubSeq(kanji_paths, 1, n),
                                                      furi_part.kana)))

\* merge_furigana
merge_furigana(src, furi) ==
    merge_parts(from_str(furi),
                all_words_with_ct(src, "Kana"),
                concat(all_words_with_ct(src, "Kanji")),
                <<>>)

\* The loop of Part::set_furigana over the morphemes: <<out, has_furigana>>
RECURSIVE furigana_loop(_, _, _)
furigana_loop(morphemes, out, has_furigana) ==
    IF morphemes = <<>> THEN <<out, has_furigana>>
    ELSE LET morpheme == Head(morphemes)
             furi == morpheme.lookup
             merged == merge_furigana(morpheme.surface, furi.text)
         IN  IF ~str_has_kanji(morpheme.surface)
             THEN furigana_loop(Tail(morphemes), out \o morpheme.surface, has_furigana)
             ELSE IF furi.some
             THEN IF ~(\E i \in DOMAIN furi.text : furi.text[i] = PIPE)
                  THEN furigana_loop(Tail(morphemes), out \o furi.text, has_furigana)
                  ELSE IF merged.some
                  THEN furigana_loop(Tail(morphemes), out \o merged.text, TRUE)
                  ELSE furigana_loop(Tail(morphemes), out, has_furigana)
             ELSE furigana_loop(Tail(morphemes), out \o morpheme.surface, has_furigana)

\* Part::set_furigana that stores whatever the loop built
set_furigana_always(morphemes, furigana) ==
    [some |-> TRUE, text |-> furigana_loop(morphemes, <<>>, FALSE)[1]]

\* Part::set_furigana: the furigana of the part after the call
set_furigana(morphemes, furigana) ==
    LET res == furigana_loop(morphemes, <<>>, FALSE)
    IN  IF res[2] THEN [some |-> TRUE, text |-> res[1]] ELSE furigana

\* Part::get_inflected
get_inflected(morphemes) == concat([i \in DOMAIN morphemes |-> morphemes[i].surface])

None == [some |-> FALSE, text |-> <<>>]

Some(text) == [some |-> TRUE, text |-> text]

\* The surfaces and the answers of add_fn the parts are built from
Surfaces ==
    { <<KANJI_IKU>>, <<KANJI_IKU, HIRA_TSU>>, <<KANJI_SAKI>>,
      <<KANJI_IKU, KANJI_SAKI>>, <<HIRA_TSU>>, <<HIRA_I, KANJI_SAKI>> }

Lookups ==
    { None,
      Some(<<HIRA_I, HIRA_KU>>),
      Some(encode(Pair(<<KANJI_IKU>>, <<HIRA_I>>)) \o <<HIRA_KU>>),
      Some(encode(Pair(<<KANJI_IKU>>, <<HIRA_I>>))),
      Some(encode(Pair(<<KANJI_SAKI>>, <<HIRA_SA>>))),
      Some(encode(Pair(<<KANJI_IKU, KANJI_SAKI>>, <<HIRA_I, HIRA_SA>>))),
      Some(encode(Pair(<<KANJI_IKU>>, <<HIRA_I>>))
           \o encode(Pair(<<KANJI_SAKI>>, <<HIRA_SA>>))) }

Morphemes == [surface : Surfaces, lookup : Lookups]

(***************************************************************************)
(* Width folding  (lib/japanese/src/lib.rs)                                *)
(***************************************************************************)
\* Bounds of the width model: the length of a string, the calls in a row
WidthMaxLen == 2
MaxWidthOps == 2

\* Both ends of both shifted ranges and their neighbours, a letter of each
\* width, a kanji and a hiragana
WidthAlphabet ==
    {\H20, \H21, \H41, \H7E, \H7F,
     \HFF01, \HFF21, \HFF5E, \HFF5F, \H6F22, \H3042}

\* char::from_u32(n).unwrap(): n itself when n is a scalar value; -1 stands
\* for the panic of unwrap on None
char_from_u32(n) ==
    IF n >= 0 /\ n <= \H10FFFF /\ ~(n >= \HD800 /\ n <= \HDFFF) THEN n ELSE -1

\* map_char: a character whose code point is in lo..hi (hi excluded, as a
\* Range<u32>) is replaced by the character at code point + delta
map_char(c, lo, hi, delta) ==
    IF c >= lo /\ c < hi THEN char_from_u32(c + delta) ELSE c

shift_unicode(s, lo, hi, delta) ==
    [i \in DOMAIN s |-> map_char(s[i], lo, hi, delta)]

to_halfwidth(s) == shift_unicode(s, \HFF01, \HFF5F, 0 - \HFEE0)

to_fullwidth_short(s) == shift_unicode(s, \H21, \H7E, \HFEE0)

to_fullwidth(s) == shift_unicode(s, \H21, \H7F, \HFEE0)

(***************************************************************************)
(* The native engine's query compilation                                   *)
(* (lib/search/src/engine/words/native/mod.rs)                             *)
(***************************************************************************)
\* Bound of the query model: the length of a text
MaxTextLen == 4

\* The window of the native n-gram index
NATIVE_NGRAM == 3

\* The term-ids a dictionary of the model hands out
TermIds == {1, 2}

PAD == \HA7

MQAlphabet == {\H3042, \H3044}

\* ngindex2::utils::padded: n padding characters on each side
padded(s, n) == [i \in 1..n |-> PAD] \o s \o [i \in 1..n |-> PAD]

\* ngindex2::Wordgrams: every window of n characters, left to right
Wordgrams(s, n) ==
    IF Len(s) < n THEN <<>>
    ELSE [i \in 1..(Len(s) - n + 1) |-> SubSeq(s, i, i + n - 1)]

\* Every n-gram a text of the model can hold
Grams ==
    UNION {{Wordgrams(padded(t, NATIVE_NGRAM - 1), NATIVE_NGRAM)[i] :
              i \in DOMAIN Wordgrams(padded(t, NATIVE_NGRAM - 1), NATIVE_NGRAM)} :
           t \in SeqsUpTo(MQAlphabet, NATIVE_NGRAM)}

\* The dictionaries: distinct n-grams, numbered in the order of the sequence
Dicts ==
    {d \in UNION {[1..k -> Grams] : k \in 0..Cardinality(TermIds)} :
        \A i, j \in DOMAIN d : i # j => d[i] # d[j]}

\* IndexDictionary::get_id: the term-id of a known n-gram, 0 for None
get_id(dict, g) ==
    IF \E i \in DOMAIN dict : dict[i] = g
    THEN CHOOSE i \in DOMAIN dict : dict[i] = g
    ELSE 0

\* Iterator::filter_map(|i| dict.get_id(i)).collect()
RECURSIVE filter_map_ids(_, _)
filter_map_ids(dict, grams) ==
    IF grams = <<>> THEN <<>>
    ELSE LET id == get_id(dict, Head(grams))
             rest == filter_map_ids(dict, Tail(grams))
         IN  IF id = 0 THEN rest ELSE <<id>> \o rest

\* slice::sort_unstable on term-ids
sort_unstable(v) == SortSeq(v, LAMBDA a, b : a < b)

\* Vec::dedup: consecutive repetitions removed
RECURSIVE dedup(_)
dedup(v) ==
    IF Len(v) < 2 THEN v
    ELSE IF v[1] = v[2] THEN dedup(Tail(v))
    ELSE <<v[1]>> \o dedup(Tail(v))

\* ngindex2::termset::TermSet::new on the sorted ids
TermSet_new(tids) == dedup(tids)

NoQuery == [some |-> FALSE, terms |-> <<>>]

SomeQuery(ts) == [some |-> TRUE, terms |-> ts]

make_query_unsorted(inp, dict) ==
    LET tids == filter_map_ids(dict,
                    Wordgrams(padded(inp, NATIVE_NGRAM - 1), NATIVE_NGRAM))
    IN  IF tids = <<>> THEN NoQuery ELSE SomeQuery(TermSet_new(tids))

\* Engine::make_query
make_query(inp, dict) ==
    LET tids == sort_unstable(filter_map_ids(dict,
                    Wordgrams(padded(inp, NATIVE_NGRAM - 1), NATIVE_NGRAM)))
    IN  IF tids = <<>> THEN NoQuery ELSE SomeQuery(TermSet_new(tids))

(***************************************************************************)
(* Word search  (lib/search/src/word/mod.rs)                               *)
(***************************************************************************)
Languages == {"English", "German"}

\* "ta", "いく", "ｋ", "行", "あ*", "*", "＊"
ROMAJI_TA == <<\H74, \H61>>
HIRA_TA == \H305F
ASTERISK == \H2A
FW_ASTERISK == \HFF0A

WSQueries ==
    {ROMAJI_TA, <<HIRA_I, HIRA_KU>>, <<FW_K>>, <<KANJI_IKU>>,
     <<HIRA_A, ASTERISK>>, <<ASTERISK>>, <<FW_ASTERISK>>}

\* The wildcards of a regex query
is_wildcard(c) == c \in {ASTERISK, FW_ASTERISK}

\* The entries of the native index a search of the model can hit
NativeTexts == {<<HIRA_I, HIRA_KU>>, <<HIRA_TA>>}

\* The words the sentence reader can select: normalized and inflected form
WSWords ==
    {[normalized |-> <<HIRA_I, HIRA_KU>>, inflected |-> <<HIRA_I, HIRA_TSU>>,
      has_inflections |-> TRUE],
     [normalized |-> <<HIRA_I, HIRA_KU>>, inflected |-> <<HIRA_I, HIRA_KU>>,
      has_inflections |-> FALSE]}

\* utils::format_romaji_nn followed by wana_kana's to_hiragana: "ta" is one
\* syllable, a lone vowel is its kana, every other character stays
RECURSIVE romaji_to_hiragana(_)
romaji_to_hiragana(s) ==
    IF s = <<>> THEN <<>>
    ELSE IF Len(s) >= 2 /\ SubSeq(s, 1, 2) = ROMAJI_TA
         THEN <<HIRA_TA>> \o romaji_to_hiragana(SubSeq(s, 3, Len(s)))
    ELSE IF Head(s) = \H61 THEN <<HIRA_A>> \o romaji_to_hiragana(Tail(s))
    ELSE <<Head(s)>> \o romaji_to_hiragana(Tail(s))

\* engine::result::SearchResult: the items of the page and the total
SearchResult(items, total) == [items |-> items, total_items |-> total]

Hit(src, text) == [src |-> src, text |-> text]

\* ResultData::default()
DefaultResultData ==
    [words |-> {}, infl_info |-> FALSE, count |-> 0,
     sentence_parts |-> FALSE, searched_query |-> <<>>]

\* Query::get_lang_with_override
get_lang_with_override(q, override) ==
    IF override # "none" THEN override ELSE q.user_lang

\* Search::parse_sentence
parse_sentence(q, env, query_str, allow_sentence) ==
    LET plain == [query |-> query_str, sentence |-> FALSE, has_word |-> FALSE,
                  word |-> env.word]
    IN  IF ~q.parse_japanese \/ ~allow_sentence THEN plain
        ELSE IF env.parsed = "Sentence"
             THEN IF env.in_db THEN plain
                  ELSE [query |-> env.word.normalized, sentence |-> TRUE,
                        has_word |-> TRUE, word |-> env.word]
        ELSE IF env.parsed = "InflectedWord"
             THEN [query |-> env.word.normalized, sentence |-> FALSE,
                   has_word |-> TRUE, word |-> env.word]
        ELSE plain

\* SearchTask<native::Engine>::find over the queries added to the task
native_find(env, queries) ==
    LET hits == {Hit("native", t) : t \in queries \cap env.native_index}
    IN  SearchResult(hits, Cardinality(hits))

NotFound ==
    [status |-> "NotFound", res |-> SearchResult({}, 0), infl_info |-> FALSE,
     sentence |-> FALSE, searched_query |-> <<>>, queries |-> {},
     steps |-> <<>>]

\* The native search of a query, given whether the regex search is tried
\* before it; queries are the texts searched, steps the searches run, in
\* order
search_regex_then_native(q, env, query_str, allow_sentence, try_regex) ==
    IF try_regex /\ env.regex_hits
    THEN [status |-> "Ok",
          res |-> SearchResult({Hit("regex", query_str)}, 1),
          infl_info |-> FALSE, sentence |-> FALSE,
          searched_query |-> query_str, queries |-> {query_str},
          steps |-> <<"regex">>]
    ELSE LET fmt_query == to_halfwidth(q.query)
             ps == parse_sentence(q, env, fmt_query, allow_sentence)
             queries ==
                 {ps.query}
                 \cup (IF ps.has_word THEN {ps.word.inflected} ELSE {})
                 \cup (IF ps.query # query_str /\ ~ps.sentence
                       THEN {q.query} ELSE {})
         IN  [status |-> "Ok",
              res |-> native_find(env, queries),
              infl_info |-> ps.has_word /\ ps.word.has_inflections,
              sentence |-> ps.sentence,
              searched_query |->
                  IF ps.has_word THEN ps.word.inflected ELSE ps.query,
              queries |-> queries,
              steps |-> IF try_regex THEN <<"regex", "native">>
                        ELSE <<"native">>]

native_search_no_length_gate(q, env, query_str, allow_sentence) ==
    IF q.language # "Japanese" /\ ~str_is_japanese(query_str) THEN NotFound
    ELSE search_regex_then_native(q, env, query_str, allow_sentence,
                                  env.regex_query)

\* Search::native_search
native_search(q, env, query_str, allow_sentence) ==
    IF q.language # "Japanese" /\ ~str_is_japanese(query_str) THEN NotFound
    ELSE search_regex_then_native(
             q, env, query_str, allow_sentence,
             /\ real_string_len(query_str) >= 2 \/ str_has_kanji(query_str)
             /\ env.regex_query)

\* A call of native_search: the text it was called with and what it did
NoCall ==
    [called |-> FALSE, query_str |-> <<>>, status |-> "NotFound",
     steps |-> <<>>, queries |-> {}, items |-> {}]

Call(query_str, ns) ==
    [called |-> TRUE, query_str |-> query_str, status |-> ns.status,
     steps |-> ns.steps, queries |-> ns.queries, items |-> ns.res.items]

Ok(data) == [status |-> "Ok", data |-> data]

Err(e) == [status |-> e, data |-> DefaultResultData]

native_results_forwarding(q, env, query_str) ==
    LET ns == native_search(q, env, query_str, TRUE)
    IN  IF ns.status = "Ok"
        THEN Ok([words |-> ns.res.items, infl_info |-> ns.infl_info,
                 count |-> ns.res.total_items,
                 sentence_parts |-> ns.sentence,
                 searched_query |-> ns.searched_query])
        ELSE Err(ns.status)

\* Search::native_results
native_results(q, env, query_str) ==
    LET ns == native_search(q, env, query_str, TRUE)
    IN  IF ns.status = "Ok"
        THEN Ok([words |-> ns.res.items, infl_info |-> ns.infl_info,
                 count |-> ns.res.total_items,
                 sentence_parts |-> ns.sentence,
                 searched_query |-> ns.searched_query])
        ELSE IF ns.status = "NotFound" THEN Ok(DefaultResultData)
        ELSE Err(ns.status)

\* SearchTask<foreign::Engine>::find of gloss_search_task: the query in the
\* used language, and in English too when show_english adds it
gloss_find(q, env, used_lang) ==
    LET langs == {used_lang} \cup
                 (IF q.show_english /\ used_lang # "English"
                  THEN {"English"} ELSE {})
        total == env.gloss[used_lang] +
                 (IF "English" \in langs \ {used_lang}
                  THEN env.gloss["English"] ELSE 0)
    IN  SearchResult({Hit(l, q.query) : l \in {m \in langs : env.gloss[m] > 0}},
                     total)

\* Search::check_other_lang: the override of the next gloss_results, or "none"
check_other_lang(q, env, override) ==
    LET guessed_langs == env.guessed \ {get_lang_with_override(q, override)}
    IN  IF Cardinality(guessed_langs) = 1
        THEN CHOOSE l \in guessed_langs : TRUE
        ELSE "none"

\* Search::gloss_results, one call: the ResultData it returns, or the
\* override with which check_other_lang calls it again
gloss_results(q, env, override) ==
    IF q.language \notin {"Foreign", "Undetected"}
    THEN [kind |-> "return", data |-> DefaultResultData, override |-> override,
          hg |-> NoCall]
    ELSE
    LET used_lang == get_lang_with_override(q, override)
        res == gloss_find(q, env, used_lang)
        fallback == /\ ~q.use_original
                    /\ res.total_items < 50
                    /\ env.could_be_romaji
                    /\ used_lang \notin env.gloss_terms
        hg_query == romaji_to_hiragana(q.query)
        hg_search == native_search(q, env, hg_query, FALSE)
        merged == fallback /\ hg_search.status = "Ok"
        total == IF merged
                 THEN res.total_items + hg_search.res.total_items
                 ELSE res.total_items
        items == IF merged THEN res.items \cup hg_search.res.items
                 ELSE res.items
        next == check_other_lang(q, env, override)
        hg == IF fallback THEN Call(hg_query, hg_search) ELSE NoCall
    IN  IF total = 0
        THEN IF next # "none"
             THEN [kind |-> "again", data |-> DefaultResultData,
                   override |-> next, hg |-> hg]
             ELSE [kind |-> "return", data |-> DefaultResultData,
                   override |-> override, hg |-> hg]
        ELSE [kind |-> "return",
              data |-> [words |-> items,
                        infl_info |-> merged /\ hg_search.infl_info,
                        count |-> total,
                        sentence_parts |-> merged /\ hg_search.sentence,
                        searched_query |->
                            IF merged THEN hg_search.searched_query
                            ELSE q.query],
              override |-> override, hg |-> hg]

\* Search::do_word_search: the two results chained into one
chain_results(native_word_res, gloss_word_res) ==
    [words |-> native_word_res.words \cup gloss_word_res.words,
     infl_info |-> native_word_res.infl_info \/ gloss_word_res.infl_info,
     count |-> native_word_res.count + gloss_word_res.count,
     sentence_parts |->
         native_word_res.sentence_parts \/ gloss_word_res.sentence_parts,
     searched_query |-> native_word_res.searched_query]

(***************************************************************************)
(* Word completion  (lib/api/src/completions/words/mod.rs)                 *)
(***************************************************************************)
\* Bound of the completion model: the suggestions an index answers
MaxSuggestions == 2

KATA_A == \H30A2

\* "あ", "いく", "ア", "あア", "a", "あa"
CPQueries ==
    {<<HIRA_A>>, <<HIRA_I, HIRA_KU>>, <<KATA_A>>, <<HIRA_A, KATA_A>>,
     <<ASCII_A>>, <<HIRA_A, ASCII_A>>}

\* types::api::completions::WordPair
WordPair(primary, has_secondary, secondary) ==
    [primary |-> primary, has_secondary |-> has_secondary,
     secondary |-> secondary]

WordPairs ==
    {WordPair(<<ASCII_A>>, FALSE, <<>>),
     WordPair(<<HIRA_A>>, TRUE, <<ASCII_A>>),
     WordPair(<<KATA_A>>, FALSE, <<>>)}

\* WordPair::has_reading
has_reading(wp, reading) ==
    wp.primary = reading \/ (wp.has_secondary /\ wp.secondary = reading)

\* Option<Vec<WordPair>>
NoSuggestions == [some |-> FALSE, list |-> <<>>]

SomeSuggestions(list) == [some |-> TRUE, list |-> list]

\* What native::suggestions or foreign::suggestions can answer
Answers ==
    {NoSuggestions} \cup
    {SomeSuggestions(l) : l \in SeqsUpTo(WordPairs, MaxSuggestions)}

\* <str as JapaneseExt>::is_hiragana
str_is_hiragana(s) == \A i \in DOMAIN s : is_hiragana(s[i])

\* wana_kana's to_katakana: a hiragana letter becomes the katakana letter
\* 0x60 above it, every other character stays
to_katakana(s) ==
    [i \in DOMAIN s |->
        IF s[i] >= \H3041 /\ s[i] <= \H3096 THEN s[i] + \H60 ELSE s[i]]

\* get_katakana_query
get_katakana_query(query) ==
    [query EXCEPT !.query_str = to_katakana(query.query_str)]

\* sort_by(word_pair_order): a stable sort that puts the pairs with the
\* query as a reading on top
sort_exact_first(list, query_str) ==
    SelectSeq(list, LAMBDA wp : has_reading(wp, query_str))
    \o SelectSeq(list, LAMBDA wp : ~has_reading(wp, query_str))

\* try_word_suggestions, given what the index of the query's language answers
try_word_suggestions(query, answer) ==
    IF query.q_lang = "Japanese" THEN answer
    ELSE SomeSuggestions(sort_exact_first(answer.list, query.query_str))

needs_katakana_on_any_query(response, query_str) == response = <<>>

\* suggestions: whether the katakana attempt is made
needs_katakana(response, query_str) ==
    response = <<>> /\ str_is_hiragana(query_str)

\* Option<Response>
NoResponse == [some |-> FALSE, suggestions |-> <<>>]

SomeResponse(suggestions) == [some |-> TRUE, suggestions |-> suggestions]

(***************************************************************************)
(* Tag-only sentence search  (lib/search/src/sentence/tag_only.rs)         *)
(***************************************************************************)
\* Bounds of the tag-only model: the tags of a query, the stored sentences
MaxTags == 2
MaxSentences == 2

\* query::tags::Tag: JLPT levels on both sides of 1..5, a tag other than
\* JLPT that may stand alone, and two that may not
Jlpt(level) == [kind |-> "Jlpt", level |-> level]

OtherTag(kind) == [kind |-> kind, level |-> 0]

Tags ==
    {Jlpt(0), Jlpt(1), Jlpt(5), Jlpt(6),
     OtherTag("IrregularIruEru"), OtherTag("Hidden"), OtherTag("PartOfSpeech")}

\* Tag::is_empty_allowed
is_empty_allowed(tag) == tag.kind \in {"Jlpt", "IrregularIruEru"}

\* Query::has_tag
has_tag(query, tag) == \E i \in DOMAIN query.tags : query.tags[i] = tag

\* A stored sentence: its level and the languages it is translated into
StoredSentences ==
    [jlpt : {1, 5}, translations : SUBSET Languages]

\* Sentence::has_translation
has_translation(sentence, language) == language \in sentence.translations

\* SentenceRetrieve::by_jlpt
by_jlpt(sentences, jlpt) == SelectSeq(sentences, LAMBDA s : s.jlpt = jlpt)

\* Iterator::take and Iterator::skip
take(s, n) == SubSeq(s, 1, IF Len(s) < n THEN Len(s) ELSE n)

skip(s, n) == SubSeq(s, n + 1, Len(s))

\* sentence::map_sentence_to_item under filter_map: the sentences with a
\* translation to show become items
map_sentences_to_items(s, user_lang, show_english) ==
    SelectSeq(s, LAMBDA i :
        has_translation(i, user_lang)
        \/ (show_english /\ has_translation(i, "English")))

\* SentenceResult::default()
DefaultSentenceResult == [items |-> <<>>, len |-> 0, hidden |-> FALSE]

TagOk(result) == [status |-> "Ok", result |-> result]

TagErr(status) == [status |-> status, result |-> DefaultSentenceResult]

\* jlpt_search; a failed assert! is the status "panic"
jlpt_search(query, sentences, jlpt) ==
    IF ~(jlpt > 0 /\ jlpt < 6) THEN TagErr("panic")
    ELSE LET senences ==
                 take(SelectSeq(by_jlpt(sentences, jlpt), LAMBDA sentence :
                          has_translation(sentence, query.user_lang)
                          /\ (has_translation(sentence, "English")
                              /\ query.show_english)),
                      10000)
             found == map_sentences_to_items(
                          take(skip(senences, query.page_offset),
                               query.page_size),
                          query.user_lang, query.show_english)
         IN  TagOk([items |-> found, len |-> Len(senences),
                    hidden |-> has_tag(query, OtherTag("Hidden"))])

\* tag_only::search
tag_only_search(query, sentences) ==
    LET allowed == {i \in DOMAIN query.tags : is_empty_allowed(query.tags[i])}
    IN  IF allowed = {} THEN TagErr("Unexpected")
        ELSE LET filter_tag ==
                     query.tags[CHOOSE i \in allowed : \A j \in allowed : i <= j]
             IN  IF filter_tag.kind = "Jlpt"
                 THEN jlpt_search(query, sentences, filter_tag.level)
                 ELSE TagOk(DefaultSentenceResult)

(***************************************************************************)
(* Concurrent requests over the shared stores                              *)
(* (lib/api/src/search/sentence/mod.rs,                                    *)
(*  lib/search/src/word/producer/japanese/sentence_reader.rs)              *)
(***************************************************************************)
\* The requests in flight at once
Requests == {1, 2}

RequestWords == {"a", "b"}

\* A request: what the parser made of its query, the normalized and the
\* inflected form of the selected word, whether it has inflections, and the
\* page limit
RequestQueries ==
    [parsed : ParseResults, normalized : RequestWords,
     inflected : RequestWords, has_inflections : BOOLEAN, word_index : {0},
     limit : Limits]

\* OutputBuilder::new for a request, with its empty side channel
NewOutputBuilder ==
    [p |-> {}, pushes |-> 0,
     output_add |-> [inflection |-> FALSE, raw_query |-> "",
                     sentence |-> FALSE, index |-> 0, query |-> ""]]

\* SearchTask::find_to: the hits of the text in the shared store are pushed
\* to the request's builder; the store is read only. searched lists the texts
\* searched.
find_to(store, out, limit, text) ==
    [store |-> store,
     out |-> IF text \in store
             THEN [out EXCEPT
                     !.p = PushResult(out.p, NewCapacity(limit), {},
                                      ResultItem(text, 1), out.pushes + 1)[1],
                     !.pushes = out.pushes + 1]
             ELSE out,
     searched |-> <<text>>]

\* InflectionInformation::from_part, as far as it is Some
from_part(part) == part.has_inflections

\* produce for an InflectedWord: one search, then the inflection
produce_inflected_word(store, out, req) ==
    LET found == find_to(store, out, req.limit, req.normalized)
    IN  [found EXCEPT !.out.output_add.inflection = from_part(req)]

produce_normalized_caching(store, out, req) ==
    [find_to(store, out, req.limit, req.normalized) EXCEPT
       !.store = store \cup {req.normalized}]

\* produce for a Sentence, its three stages
produce_normalized(store, out, req) ==
    find_to(store, out, req.limit, req.normalized)

produce_inflected_always(store, out, req) ==
    find_to(store, out, req.limit, req.inflected)

produce_inflected(store, out, req) ==
    IF req.inflected # req.normalized
    THEN find_to(store, out, req.limit, req.inflected)
    ELSE [store |-> store, out |-> out, searched |-> <<>>]

produce_side_channel(out, req) ==
    [out EXCEPT
       !.output_add = [inflection |-> from_part(req),
                       raw_query |-> req.inflected,
                       sentence |-> TRUE,
                       index |-> req.word_index,
                       query |-> req.normalized]]

\* SReaderProducer::produce from start to end, on a builder of its own
produce(store, out, req) ==
    IF req.parsed = "InflectedWord"
    THEN produce_inflected_word(store, out, req).out
    ELSE IF req.parsed = "Sentence"
    THEN LET o1 == produce_normalized(store, out, req).out
             o2 == produce_inflected(store, o1, req).out
         IN  produce_side_channel(o2, req)
    ELSE out

(***************************************************************************)
(* Sense and gloss ids  (lib/types/src/jotoba/words/sense.rs)              *)
(***************************************************************************)
\* Every value of a u8
U8 == 0..255

\* x as u8, x as u16
as_u8(x) == x % 256

as_u16(x) == x % 65536

\* x << n and x >> n on a u16
shl_u16(x, n) == as_u16(x * 2^n)

shr_u16(x, n) == x \div 2^n

\* a | b, bit by bit
RECURSIVE bit_or(_, _)
bit_or(a, b) ==
    IF a = 0 THEN b
    ELSE IF b = 0 THEN a
    ELSE (IF a % 2 = 1 \/ b % 2 = 1 THEN 1 ELSE 0)
         + 2 * bit_or(a \div 2, b \div 2)

to_unique_id_short_shift(sense_id, gloss_id) ==
    bit_or(shl_u16(as_u16(sense_id), 7), as_u16(gloss_id))

\* to_unique_id: (sense_id as u16) << 8 | gloss_id as u16
to_unique_id(sense_id, gloss_id) ==
    bit_or(shl_u16(as_u16(sense_id), 8), as_u16(gloss_id))

\* from_unique_id
from_unique_id(id) ==
    LET gloss_id == as_u8(id)
        sense_id == as_u8(shr_u16(id, 8))
    IN  <<sense_id, gloss_id>>

(***************************************************************************)
(* SenseGlossIter  (lib/types/src/jotoba/words/sense.rs)                   *)
(***************************************************************************)
\* Bounds of the iterator model: senses of a word, glosses of a sense, and
\* the calls of next after the word is exhausted
MaxSenses == 2
MaxGlosses == 2
MaxCallsAfterEnd == 2

Glosses == {"g", "h"}

\* The words: every sense a sequence of glosses, an empty one included
Words == SeqsUpTo(SeqsUpTo(Glosses, MaxGlosses), MaxSenses)

\* Option<(&Sense, &Gloss)>: the position of the sense and of the gloss in
\* it, and the gloss
NoItem == [some |-> FALSE, sense |-> 0, gloss_pos |-> 0, gloss |-> ""]

SomeItem(sense, gloss_pos, gloss) ==
    [some |-> TRUE, sense |-> sense, gloss_pos |-> gloss_pos, gloss |-> gloss]

sense_gloss_next_no_reset(senses, sense_pos, gloss_pos) ==
    IF Len(senses) <= sense_pos
    THEN [status |-> "ok", item |-> NoItem,
          sense_pos |-> sense_pos, gloss_pos |-> gloss_pos]
    ELSE LET sense == senses[sense_pos + 1]
         IN  IF sense = <<>> \/ gloss_pos >= Len(sense)
             THEN [status |-> "panic", item |-> NoItem,
                   sense_pos |-> sense_pos, gloss_pos |-> gloss_pos]
             ELSE [status |-> "ok",
                   item |-> SomeItem(sense_pos, gloss_pos, sense[gloss_pos + 1]),
                   sense_pos |-> IF gloss_pos + 1 >= Len(sense)
                                 THEN sense_pos + 1 ELSE sense_pos,
                   gloss_pos |-> gloss_pos + 1]

\* SenseGlossIter::next; positions count from 0 as in the source, and a
\* failed assert! or an index past the end of glosses is the status "panic"
sense_gloss_next(senses, sense_pos, gloss_pos) ==
    IF Len(senses) <= sense_pos
    THEN [status |-> "ok", item |-> NoItem,
          sense_pos |-> sense_pos, gloss_pos |-> gloss_pos]
    ELSE LET sense == senses[sense_pos + 1]
         IN  IF sense = <<>> \/ gloss_pos >= Len(sense)
             THEN [status |-> "panic", item |-> NoItem,
                   sense_pos |-> sense_pos, gloss_pos |-> gloss_pos]
             ELSE [status |-> "ok",
                   item |-> SomeItem(sense_pos, gloss_pos, sense[gloss_pos + 1]),
                   sense_pos |-> IF gloss_pos + 1 >= Len(sense)
                                 THEN sense_pos + 1 ELSE sense_pos,
                   gloss_pos |-> IF gloss_pos + 1 >= Len(sense)
                                 THEN 0 ELSE gloss_pos + 1]

(***************************************************************************)
(* text_parts  (lib/japanese/src/lib.rs)                                   *)
(***************************************************************************)
\* Bound of the text_parts model: the length of a text
MaxPartsTextLen == 4

\* "あ", "ア", "行", "、", "a", "ｋ": two kana, a kanji, a symbol, a character
\* of no class and a fullwidth letter (of the kanji type)
IDEOGRAPHIC_COMMA == \H3001

TPAlphabet == {HIRA_A, KATA_A, KANJI_IKU, IDEOGRAPHIC_COMMA, ASCII_A, FW_K}

\* The closure of text_parts, called with the iterator at character pos
\* (from 1): the part it returns and where it leaves the iterator. The
\* offsets of char_indices are character boundaries, so the slices are the
\* characters in between.
text_parts_next_by_kana(kanji, pos) ==
    IF pos > Len(kanji) THEN [some |-> FALSE, part |-> <<>>, pos |-> pos]
    ELSE LET curr_char == kanji[pos]
             differing == {p \in (pos + 1)..Len(kanji) :
                              is_kana(curr_char) # is_kana(kanji[p])}
             stop == IF differing = {} THEN Len(kanji) + 1
                     ELSE CHOOSE p \in differing : \A o \in differing : p <= o
         IN  [some |-> TRUE, part |-> SubSeq(kanji, pos, stop - 1),
              pos |-> stop]

text_parts_next(kanji, pos) ==
    IF pos > Len(kanji) THEN [some |-> FALSE, part |-> <<>>, pos |-> pos]
    ELSE LET curr_char == kanji[pos]
             differing == {p \in (pos + 1)..Len(kanji) :
                              get_text_type(curr_char) # get_text_type(kanji[p])}
             stop == IF differing = {} THEN Len(kanji) + 1
                     ELSE CHOOSE p \in differing : \A o \in differing : p <= o
         IN  [some |-> TRUE, part |-> SubSeq(kanji, pos, stop - 1),
              pos |-> stop]

\* The iterator drained from character pos on
RECURSIVE collect_parts(_, _)
collect_parts(kanji, pos) ==
    LET r == text_parts_next(kanji, pos)
    IN  IF ~r.some THEN <<>>
        ELSE <<r.part>> \o collect_parts(kanji, r.pos)

\* text_parts(kanji).collect()
text_parts(kanji) == collect_parts(kanji, 1)

(***************************************************************************)
(* The furigana rankers  (lib/search/src/word/mod.rs and                   *)
(* lib/search/src/word/producer/japanese/sentence_reader.rs)               *)
(***************************************************************************)
\* The readings and morphemes ranked: two single kanji and a kana
FuriReadings == {<<KANJI_IKU>>, <<KANJI_SAKI>>, <<HIRA_I>>}

PosSimples == {"Noun", "Verb"}

NoPos == [some |-> FALSE, pos |-> "Noun"]

SomePos(p) == [some |-> TRUE, pos |-> p]

\* norm_reading_freq of the word's kanji and kana, in hundredths: no entry,
\* 0.55 or 1.0
NoNorm == [some |-> FALSE, hundredths |-> 0]

SomeNorm(h) == [some |-> TRUE, hundredths |-> h]

Norms == {NoNorm, SomeNorm(55), SomeNorm(100)}

\* A word as far as the rankers read it
FuriWords ==
    [reading : FuriReadings, pos : PosSimples, common : BOOLEAN,
     jlpt : BOOLEAN, norm : Norms]

\* Word::has_pos(&[pos])
has_pos(i, pos) == i.pos = pos

\* usize::saturating_sub
saturating_sub(a, b) == IF a >= b THEN a - b ELSE 0

\* str::is_kanji
str_is_kanji(s) == \A k \in DOMAIN s : is_kanji(s[k])

furi_order_weak_exact(i, pos, morph) ==
    LET s0 == IF i.reading # morph THEN 0 ELSE 20
        s1 == IF pos.some
              THEN IF has_pos(i, pos.pos) THEN s0 + 20
                   ELSE saturating_sub(s0, 30)
              ELSE s0
        s2 == IF i.common THEN s1 + 2 ELSE s1
    IN  IF i.jlpt THEN s2 + 2 ELSE s2

furi_order(i, pos, morph) ==
    LET s0 == IF i.reading # morph THEN 0 ELSE 100
        s1 == IF pos.some
              THEN IF has_pos(i, pos.pos) THEN s0 + 20
                   ELSE saturating_sub(s0, 30)
              ELSE s0
        s2 == IF i.common THEN s1 + 2 ELSE s1
    IN  IF i.jlpt THEN s2 + 2 ELSE s2

\* The bump of word_furi_order: (norm * 10.0) as usize for a reading of one
\* kanji with a known reading frequency
reading_freq_bump(i) ==
    IF real_string_len(i.reading) = 1 /\ str_is_kanji(i.reading) /\ i.norm.some
    THEN (i.norm.hundredths * 10) \div 100
    ELSE 0

word_furi_order(i, pos, morph) ==
    LET s0 == IF i.reading = morph THEN 100 ELSE 0
        s1 == s0 + reading_freq_bump(i)
        s2 == IF pos.some
              THEN IF has_pos(i, pos.pos) THEN s1 + 20
                   ELSE saturating_sub(s1, 30)
              ELSE s1
        s3 == IF i.common THEN s2 + 2 ELSE s2
    IN  IF i.jlpt THEN s3 + 2 ELSE s3

(***************************************************************************)
(* SReaderProducer::produce on a parsed sentence                           *)
(* (lib/search/src/word/producer/japanese/sentence_reader.rs)              *)
(***************************************************************************)
\* Bounds of the producer model: the words of a sentence and the largest
\* word index a request asks for
MaxWords == 2

MaxWordIndex == 3

\* A part as far as produce reads it
SentenceParts ==
    [normalized : RequestWords, inflected : RequestWords,
     has_inflections : BOOLEAN]

\* Sentence::word_count
word_count(sentence) == Len(sentence)

\* Sentence::get_at
NoPart == [some |-> FALSE, part |-> CHOOSE p \in SentenceParts : TRUE]

SomePart(p) == [some |-> TRUE, part |-> p]

get_at(sentence, index) ==
    IF index < Len(sentence) THEN SomePart(sentence[index + 1]) ELSE NoPart

\* usize::clamp
clamp(v, lo, hi) == IF v < lo THEN lo ELSE IF v > hi THEN hi ELSE v

\* SReaderProducer::sentence_index
sentence_index(parsed, parts, word_index) ==
    IF parsed = "Sentence" THEN clamp(word_index, 0, word_count(parts) - 1)
    ELSE 0

\* SReaderProducer::sentence_word
sentence_word(parsed, parts, word_index) ==
    IF parsed = "Sentence"
    THEN get_at(parts, sentence_index(parsed, parts, word_index))
    ELSE NoPart

\* The word produce works on: as_inflected_word() for an InflectedWord,
\* sentence_word().unwrap() for a Sentence; with the word index and the limit
\* of the query
selected_request(parsed, parts, word_index, limit) ==
    LET word == IF parsed = "Sentence"
                THEN sentence_word(parsed, parts, word_index).part
                ELSE parts[1]
    IN  [parsed |-> parsed, normalized |-> word.normalized,
         inflected |-> word.inflected,
         has_inflections |-> word.has_inflections,
         word_index |-> word_index, limit |-> limit]

(***************************************************************************)
(* The parts of the state a specification leaves alone                     *)
(***************************************************************************)
ReqIdle ==
    /\ req_input = <<>>
    /\ req_hashtag = FALSE
    /\ req_lang = "Undetected"
    /\ req_valid = "pending"
    /\ req_adjusted = [status |-> "pending", input |-> <<>>]

PartIdle ==
    /\ part_morphemes = <<>>
    /\ part_furigana = None
    /\ part_set = FALSE

SRIdle ==
    /\ sr_query_str = <<>>
    /\ sr_q_lang = "Undetected"
    /\ sr_form = "Normal"
    /\ sr_is_regex = FALSE
    /\ sr_parsed = "None"
    /\ sr_word_exists = FALSE
    /\ sr_asked = FALSE
    /\ sr_should_run = FALSE

OBIdle ==
    /\ ob_limit = 1
    /\ ob_filter = {}
    /\ ob_p = {}
    /\ ob_pushed = <<>>
    /\ ob_ret = FALSE

WidthIdle ==
    /\ w_s = <<>>
    /\ w_out = <<>>
    /\ w_ops = <<>>

MQIdle ==
    /\ mq_text = <<>>
    /\ mq_dict = <<>>
    /\ mq_called = FALSE
    /\ mq_query = NoQuery

WSIdle ==
    /\ ws_q = [query |-> <<>>, language |-> "Undetected",
               use_original |-> FALSE, parse_japanese |-> FALSE,
               user_lang |-> "English", show_english |-> FALSE]
    /\ ws_env = [regex_query |-> FALSE, regex_hits |-> FALSE,
                 parsed |-> "None", in_db |-> FALSE,
                 word |-> [normalized |-> <<>>, inflected |-> <<>>,
                           has_inflections |-> FALSE],
                 native_index |-> {}, gloss |-> [l \in Languages |-> 0],
                 gloss_terms |-> {}, could_be_romaji |-> FALSE,
                 guessed |-> {}]
    /\ ws_pc = "native"
    /\ ws_native = Ok(DefaultResultData)
    /\ ws_override = "none"
    /\ ws_gloss = DefaultResultData
    /\ ws_result = Ok(DefaultResultData)
    /\ ws_trace = [native |-> NoCall, fallback |-> NoCall]

CPIdle ==
    /\ cp_query = [query_str |-> <<>>, q_lang |-> "Undetected"]
    /\ cp_answers = <<NoSuggestions, NoSuggestions>>
    /\ cp_pc = "first"
    /\ cp_response = NoSuggestions
    /\ cp_tried = <<>>
    /\ cp_ret = NoResponse

TagIdle ==
    /\ tg_query = [tags |-> <<>>, user_lang |-> "English",
                   show_english |-> FALSE, page_offset |-> 0, page_size |-> 1]
    /\ tg_sentences = <<>>
    /\ tg_called = FALSE
    /\ tg_result = TagOk(DefaultSentenceResult)

CCIdle ==
    /\ cc_store = {}
    /\ cc_req = [r \in Requests |->
                    [parsed |-> "None", normalized |-> "a", inflected |-> "a",
                     word_index |-> 0, limit |-> 1]]
    /\ cc_pc = [r \in Requests |-> "start"]
    /\ cc_out = [r \in Requests |-> NewOutputBuilder]

UidIdle ==
    /\ uid_sense = 0
    /\ uid_gloss = 0
    /\ uid_pc = "pair"
    /\ uid_id = 0
    /\ uid_back = <<0, 0>>

SGIdle ==
    /\ sg_word = <<>>
    /\ sg_sense_pos = 0
    /\ sg_gloss_pos = 0
    /\ sg_yielded = <<>>
    /\ sg_panicked = FALSE

TPIdle ==
    /\ tp_text = <<>>
    /\ tp_called = FALSE
    /\ tp_parts = <<>>

FOIdle ==
    /\ fo_a = CHOOSE w \in FuriWords : TRUE
    /\ fo_b = CHOOSE w \in FuriWords : TRUE
    /\ fo_pos = NoPos
    /\ fo_morph = <<>>
    /\ fo_ranker = "none"
    /\ fo_score_a = 0
    /\ fo_score_b = 0

PDIdle ==
    /\ pd_parsed = "None"
    /\ pd_parts = <<>>
    /\ pd_word_index = 0
    /\ pd_limit = 1
    /\ pd_store = {}
    /\ pd_pc = "start"
    /\ pd_out = NewOutputBuilder
    /\ pd_log = <<>>

(***************************************************************************)
(* The output builder under a sequence of pushes                           *)
(***************************************************************************)
OBInit ==
    /\ ob_limit \in Limits
    /\ ob_filter \in SUBSET Items
    /\ ob_p = {}
    /\ ob_pushed = <<>>
    /\ ob_ret = FALSE
    /\ ReqIdle
    /\ PartIdle
    /\ SRIdle
    /\ WidthIdle
    /\ MQIdle
    /\ WSIdle
    /\ CPIdle
    /\ TagIdle
    /\ CCIdle
    /\ UidIdle
    /\ SGIdle
    /\ TPIdle
    /\ FOIdle
    /\ PDIdle

push(ri) ==
    /\ Len(ob_pushed) < MaxPushes
    /\ LET res == PushResult(ob_p, NewCapacity(ob_limit), ob_filter, ri,
                             Len(ob_pushed) + 1)
       IN  /\ ob_p' = res[1]
           /\ ob_ret' = res[2]
    /\ ob_pushed' = Append(ob_pushed, ri)
    /\ UNCHANGED <<ob_limit, ob_filter>>
    /\ UNCHANGED <<req_vars, sr_vars, part_vars, w_vars, mq_vars, ws_vars,
                   cp_vars, tg_vars, cc_vars, uid_vars, sg_vars, tp_vars,
                   fo_vars, pd_vars>>

OBNext == \E ri \in ResultItems : push(ri)

OBSpec == OBInit /\ [][OBNext]_vars

(***************************************************************************)
(* The completion request: validate and adjust, each called once           *)
(***************************************************************************)
ReqInit ==
    /\ req_input \in ReqInputs
    /\ req_hashtag \in BOOLEAN
    /\ req_lang \in LangChoices(req_input)
    /\ req_valid = "pending"
    /\ req_adjusted = [status |-> "pending", input |-> <<>>]
    /\ PartIdle
    /\ SRIdle
    /\ OBIdle
    /\ WidthIdle
    /\ MQIdle
    /\ WSIdle
    /\ CPIdle
    /\ TagIdle
    /\ CCIdle
    /\ UidIdle
    /\ SGIdle
    /\ TPIdle
    /\ FOIdle
    /\ PDIdle

Validate ==
    /\ req_valid = "pending"
    /\ req_valid' = validate(req_input, req_hashtag)
    /\ UNCHANGED <<req_input, req_hashtag, req_lang, req_adjusted>>
    /\ UNCHANGED <<ob_vars, sr_vars, part_vars, w_vars, mq_vars, ws_vars,
                   cp_vars, tg_vars, cc_vars, uid_vars, sg_vars, tp_vars,
                   fo_vars, pd_vars>>

Adjust ==
    /\ req_adjusted.status = "pending"
    /\ req_adjusted' = adjust(req_input, req_lang)
    /\ UNCHANGED <<req_input, req_hashtag, req_lang, req_valid>>
    /\ UNCHANGED <<ob_vars, sr_vars, part_vars, w_vars, mq_vars, ws_vars,
                   cp_vars, tg_vars, cc_vars, uid_vars, sg_vars, tp_vars,
                   fo_vars, pd_vars>>

ReqNext == Validate \/ Adjust

ReqSpec == ReqInit /\ [][ReqNext]_vars

(***************************************************************************)
(* The sentence-reader producer asked whether it runs                      *)
(***************************************************************************)
SRInit ==
    /\ sr_query_str \in SeqsUpTo(SRAlphabet, SRMaxLen)
    /\ sr_q_lang \in LangChoices(sr_query_str)
    /\ sr_form \in QueryForms
    /\ sr_is_regex \in BOOLEAN
    /\ sr_parsed \in ParseResults
    /\ sr_word_exists \in BOOLEAN
    /\ sr_asked = FALSE
    /\ sr_should_run = FALSE
    /\ ReqIdle
    /\ PartIdle
    /\ OBIdle
    /\ WidthIdle
    /\ MQIdle
    /\ WSIdle
    /\ CPIdle
    /\ TagIdle
    /\ CCIdle
    /\ UidIdle
    /\ SGIdle
    /\ TPIdle
    /\ FOIdle
    /\ PDIdle

ShouldRun ==
    /\ ~sr_asked
    /\ sr_asked' = TRUE
    /\ sr_should_run' = should_run(sr_parsed, sr_q_lang, sr_form, sr_is_regex,
                                   sr_query_str, sr_word_exists)
    /\ UNCHANGED <<sr_query_str, sr_q_lang, sr_form, sr_is_regex, sr_parsed,
                   sr_word_exists>>
    /\ UNCHANGED <<ob_vars, req_vars, part_vars, w_vars, mq_vars, ws_vars,
                   cp_vars, tg_vars, cc_vars, uid_vars, sg_vars, tp_vars,
                   fo_vars, pd_vars>>

SRNext == ShouldRun

SRSpec == SRInit /\ [][SRNext]_vars

(***************************************************************************)
(* A sentence part given its furigana                                      *)
(***************************************************************************)
PartInit ==
    /\ part_morphemes \in UNION {[1..n -> Morphemes] : n \in 1..MaxMorphemes}
    /\ part_furigana = None
    /\ part_set = FALSE
    /\ ReqIdle
    /\ SRIdle
    /\ OBIdle
    /\ WidthIdle
    /\ MQIdle
    /\ WSIdle
    /\ CPIdle
    /\ TagIdle
    /\ CCIdle
    /\ UidIdle
    /\ SGIdle
    /\ TPIdle
    /\ FOIdle
    /\ PDIdle

SetFurigana ==
    /\ ~part_set
    /\ part_set' = TRUE
    /\ part_furigana' = set_furigana(part_morphemes, part_furigana)
    /\ UNCHANGED part_morphemes
    /\ UNCHANGED <<ob_vars, req_vars, sr_vars, w_vars, mq_vars, ws_vars,
                   cp_vars, tg_vars, cc_vars, uid_vars, sg_vars, tp_vars,
                   fo_vars, pd_vars>>

PartNext == SetFurigana

PartSpec == PartInit /\ [][PartNext]_vars

(***************************************************************************)
(* A string folded to halfwidth and to fullwidth, in any order             *)
(***************************************************************************)
WidthInit ==
    /\ w_s \in SeqsUpTo(WidthAlphabet, WidthMaxLen)
    /\ w_out = w_s
    /\ w_ops = <<>>
    /\ ReqIdle
    /\ PartIdle
    /\ SRIdle
    /\ OBIdle
    /\ MQIdle
    /\ WSIdle
    /\ CPIdle
    /\ TagIdle
    /\ CCIdle
    /\ UidIdle
    /\ SGIdle
    /\ TPIdle
    /\ FOIdle
    /\ PDIdle

ToHalfwidth ==
    /\ Len(w_ops) < MaxWidthOps
    /\ w_out' = to_halfwidth(w_out)
    /\ w_ops' = Append(w_ops, "half")
    /\ UNCHANGED w_s
    /\ UNCHANGED <<ob_vars, req_vars, sr_vars, part_vars, mq_vars, ws_vars,
                   cp_vars, tg_vars, cc_vars, uid_vars, sg_vars, tp_vars,
                   fo_vars, pd_vars>>

ToFullwidth ==
    /\ Len(w_ops) < MaxWidthOps
    /\ w_out' = to_fullwidth(w_out)
    /\ w_ops' = Append(w_ops, "full")
    /\ UNCHANGED w_s
    /\ UNCHANGED <<ob_vars, req_vars, sr_vars, part_vars, mq_vars, ws_vars,
                   cp_vars, tg_vars, cc_vars, uid_vars, sg_vars, tp_vars,
                   fo_vars, pd_vars>>

WidthNext == ToHalfwidth \/ ToFullwidth

WidthSpec == WidthInit /\ [][WidthNext]_vars

(***************************************************************************)
(* A text compiled into a query against a dictionary                       *)
(***************************************************************************)
MQInit ==
    /\ mq_text \in SeqsUpTo(MQAlphabet, MaxTextLen)
    /\ mq_dict \in Dicts
    /\ mq_called = FALSE
    /\ mq_query = NoQuery
    /\ ReqIdle
    /\ PartIdle
    /\ SRIdle
    /\ OBIdle
    /\ WidthIdle
    /\ WSIdle
    /\ CPIdle
    /\ TagIdle
    /\ CCIdle
    /\ UidIdle
    /\ SGIdle
    /\ TPIdle
    /\ FOIdle
    /\ PDIdle

MakeQuery ==
    /\ ~mq_called
    /\ mq_called' = TRUE
    /\ mq_query' = make_query(mq_text, mq_dict)
    /\ UNCHANGED <<mq_text, mq_dict>>
    /\ UNCHANGED <<ob_vars, req_vars, sr_vars, part_vars, w_vars, ws_vars,
                   cp_vars, tg_vars, cc_vars, uid_vars, sg_vars, tp_vars,
                   fo_vars, pd_vars>>

MQNext == MakeQuery

MQSpec == MQInit /\ [][MQNext]_vars

(***************************************************************************)
(* One word search: native_results, then gloss_results as often as         *)
(* check_other_lang calls it again, then the chained result                *)
(***************************************************************************)
\* The answers of the indexes and guessers for a query of the model
WSEnvs(query, language, parse_japanese) ==
    LET wildcard == \E i \in DOMAIN query : is_wildcard(query[i])
        japanese == query # <<>> /\ str_is_japanese(query)
        foreign == language \in {"Foreign", "Undetected"}
        ascii == \A i \in DOMAIN query : query[i] < \H80
        words == IF japanese /\ parse_japanese
                 THEN WSWords
                 ELSE {[normalized |-> <<>>, inflected |-> <<>>,
                        has_inflections |-> FALSE]}
    IN  {e \in [regex_query : IF wildcard THEN BOOLEAN ELSE {FALSE},
                regex_hits : IF wildcard THEN BOOLEAN ELSE {FALSE},
                parsed : IF japanese /\ parse_japanese
                         THEN ParseResults ELSE {"None"},
                in_db : IF japanese /\ parse_japanese
                        THEN BOOLEAN ELSE {FALSE},
                word : words,
                native_index : SUBSET NativeTexts,
                gloss : IF foreign THEN [Languages -> {0, 1, 50}]
                        ELSE {[l \in Languages |-> 0]},
                gloss_terms : IF foreign THEN SUBSET Languages ELSE {{}},
                could_be_romaji : IF foreign /\ ascii
                                  THEN BOOLEAN ELSE {FALSE},
                guessed : IF foreign THEN SUBSET Languages ELSE {{}}] :
            /\ e.regex_hits => e.regex_query
            /\ e.parsed # "Sentence" => ~e.in_db
            /\ e.parsed = "None" => e.word = CHOOSE w \in words : TRUE
            /\ \A l \in Languages : e.gloss[l] > 0 => l \in e.gloss_terms}

WSInit ==
    /\ \E query \in WSQueries, use_original, parse_japanese \in BOOLEAN,
          user_lang \in Languages, show_english \in BOOLEAN :
          \E language \in LangChoices(query) :
             /\ ws_q = [query |-> query, language |-> language,
                        use_original |-> use_original,
                        parse_japanese |-> parse_japanese,
                        user_lang |-> user_lang, show_english |-> show_english]
             /\ ws_env \in WSEnvs(query, language, parse_japanese)
    /\ ws_pc = "native"
    /\ ws_native = Ok(DefaultResultData)
    /\ ws_override = "none"
    /\ ws_gloss = DefaultResultData
    /\ ws_result = Ok(DefaultResultData)
    /\ ws_trace = [native |-> NoCall, fallback |-> NoCall]
    /\ ReqIdle
    /\ PartIdle
    /\ SRIdle
    /\ OBIdle
    /\ WidthIdle
    /\ MQIdle
    /\ CPIdle
    /\ TagIdle
    /\ CCIdle
    /\ UidIdle
    /\ SGIdle
    /\ TPIdle
    /\ FOIdle
    /\ PDIdle

\* do_word_search up to the return of native_results
NativeResults ==
    /\ ws_pc = "native"
    /\ LET r == native_results(ws_q, ws_env, ws_q.query)
       IN  /\ ws_native' = r
           /\ IF r.status = "Ok"
              THEN ws_pc' = "gloss" /\ UNCHANGED ws_result
              ELSE ws_pc' = "done" /\ ws_result' = r
    /\ ws_trace' = [ws_trace EXCEPT
                      !.native = Call(ws_q.query,
                                      native_search(ws_q, ws_env, ws_q.query,
                                                    TRUE))]
    /\ UNCHANGED <<ws_q, ws_env, ws_override, ws_gloss>>
    /\ UNCHANGED <<ob_vars, req_vars, sr_vars, part_vars, w_vars, mq_vars,
                   cp_vars, tg_vars, cc_vars, uid_vars, sg_vars, tp_vars,
                   fo_vars, pd_vars>>

\* One call of gloss_results; the last one returns into do_word_search,
\* which chains the two results
GlossResults ==
    /\ ws_pc = "gloss"
    /\ LET g == gloss_results(ws_q, ws_env, ws_override)
       IN  /\ ws_trace' = [ws_trace EXCEPT
                             !.fallback = IF g.hg.called THEN g.hg ELSE @]
           /\ IF g.kind = "again"
              THEN /\ ws_override' = g.override
                   /\ UNCHANGED <<ws_pc, ws_gloss, ws_result>>
              ELSE /\ ws_gloss' = g.data
                   /\ ws_result' = Ok(chain_results(ws_native.data, g.data))
                   /\ ws_pc' = "done"
                   /\ UNCHANGED ws_override
    /\ UNCHANGED <<ws_q, ws_env, ws_native>>
    /\ UNCHANGED <<ob_vars, req_vars, sr_vars, part_vars, w_vars, mq_vars,
                   cp_vars, tg_vars, cc_vars, uid_vars, sg_vars, tp_vars,
                   fo_vars, pd_vars>>

WSNext == NativeResults \/ GlossResults

WSSpec == WSInit /\ [][WSNext]_vars

(***************************************************************************)
(* One call of suggestions: the first attempt and, when it is made, the    *)
(* attempt with the katakana query                                         *)
(***************************************************************************)
CPInit ==
    /\ \E query_str \in CPQueries : \E q_lang \in LangChoices(query_str) :
          cp_query = [query_str |-> query_str, q_lang |-> q_lang]
    /\ cp_answers \in [1..2 -> Answers]
    /\ cp_pc = "first"
    /\ cp_response = NoSuggestions
    /\ cp_tried = <<>>
    /\ cp_ret = NoResponse
    /\ ReqIdle
    /\ PartIdle
    /\ SRIdle
    /\ OBIdle
    /\ WidthIdle
    /\ MQIdle
    /\ WSIdle
    /\ TagIdle
    /\ CCIdle
    /\ UidIdle
    /\ SGIdle
    /\ TPIdle
    /\ FOIdle
    /\ PDIdle

\* suggestions up to the choice between the response and the second attempt
FirstAttempt ==
    /\ cp_pc = "first"
    /\ cp_tried' = Append(cp_tried, cp_query.query_str)
    /\ LET response == try_word_suggestions(cp_query, cp_answers[1])
       IN  /\ cp_response' = response
           /\ IF ~response.some
              THEN cp_pc' = "done" /\ cp_ret' = NoResponse
              ELSE IF needs_katakana(response.list, cp_query.query_str)
                   THEN cp_pc' = "second" /\ UNCHANGED cp_ret
                   ELSE /\ cp_pc' = "done"
                        /\ cp_ret' = SomeResponse(response.list)
    /\ UNCHANGED <<cp_query, cp_answers>>
    /\ UNCHANGED <<ob_vars, req_vars, sr_vars, part_vars, w_vars, mq_vars,
                   ws_vars, tg_vars, cc_vars, uid_vars, sg_vars, tp_vars,
                   fo_vars, pd_vars>>

\* suggestions from the katakana attempt to its return
SecondAttempt ==
    /\ cp_pc = "second"
    /\ LET kq == get_katakana_query(cp_query)
           result == try_word_suggestions(kq, cp_answers[2])
       IN  /\ cp_tried' = Append(cp_tried, kq.query_str)
           /\ cp_ret' = IF result.some THEN SomeResponse(result.list)
                        ELSE NoResponse
    /\ cp_pc' = "done"
    /\ UNCHANGED <<cp_query, cp_answers, cp_response>>
    /\ UNCHANGED <<ob_vars, req_vars, sr_vars, part_vars, w_vars, mq_vars,
                   ws_vars, tg_vars, cc_vars, uid_vars, sg_vars, tp_vars,
                   fo_vars, pd_vars>>

CPNext == FirstAttempt \/ SecondAttempt

CPSpec == CPInit /\ [][CPNext]_vars

(***************************************************************************)
(* One tag-only sentence search                                            *)
(***************************************************************************)
TagInit ==
    /\ tg_query \in [tags : SeqsUpTo(Tags, MaxTags), user_lang : Languages,
                     show_english : BOOLEAN, page_offset : {0, 1},
                     page_size : {1, 2}]
    /\ tg_sentences \in SeqsUpTo(StoredSentences, MaxSentences)
    /\ tg_called = FALSE
    /\ tg_result = TagOk(DefaultSentenceResult)
    /\ ReqIdle
    /\ PartIdle
    /\ SRIdle
    /\ OBIdle
    /\ WidthIdle
    /\ MQIdle
    /\ WSIdle
    /\ CPIdle
    /\ CCIdle
    /\ UidIdle
    /\ SGIdle
    /\ TPIdle
    /\ FOIdle
    /\ PDIdle

TagOnlySearch ==
    /\ ~tg_called
    /\ tg_called' = TRUE
    /\ tg_result' = tag_only_search(tg_query, tg_sentences)
    /\ UNCHANGED <<tg_query, tg_sentences>>
    /\ UNCHANGED <<ob_vars, req_vars, sr_vars, part_vars, w_vars, mq_vars,
                   ws_vars, cp_vars, cc_vars, uid_vars, sg_vars, tp_vars,
                   fo_vars, pd_vars>>

TagNext == TagOnlySearch

TagSpec == TagInit /\ [][TagNext]_vars

(***************************************************************************)
(* Requests running side by side, each on a worker of the blocking pool    *)
(***************************************************************************)
CCInit ==
    /\ cc_store \in SUBSET RequestWords
    /\ cc_req \in [Requests -> RequestQueries]
    /\ cc_pc = [r \in Requests |-> "start"]
    /\ cc_out = [r \in Requests |-> NewOutputBuilder]
    /\ ReqIdle
    /\ PartIdle
    /\ SRIdle
    /\ OBIdle
    /\ WidthIdle
    /\ MQIdle
    /\ WSIdle
    /\ CPIdle
    /\ TagIdle
    /\ UidIdle
    /\ SGIdle
    /\ TPIdle
    /\ FOIdle
    /\ PDIdle

\* The step of request r that ran a search: its builder and the store after
CCSearched(r, res, pc) ==
    /\ cc_store' = res.store
    /\ cc_out' = [cc_out EXCEPT ![r] = res.out]
    /\ cc_pc' = [cc_pc EXCEPT ![r] = pc]
    /\ UNCHANGED cc_req
    /\ UNCHANGED <<ob_vars, req_vars, sr_vars, part_vars, w_vars, mq_vars,
                   ws_vars, cp_vars, tg_vars, uid_vars, sg_vars, tp_vars,
                   fo_vars, pd_vars>>

\* A query that parsed to nothing: produce leaves the builder alone
ProduceNothing(r) ==
    /\ cc_pc[r] = "start"
    /\ cc_req[r].parsed = "None"
    /\ cc_pc' = [cc_pc EXCEPT ![r] = "done"]
    /\ UNCHANGED <<cc_store, cc_req, cc_out>>
    /\ UNCHANGED <<ob_vars, req_vars, sr_vars, part_vars, w_vars, mq_vars,
                   ws_vars, cp_vars, tg_vars, uid_vars, sg_vars, tp_vars,
                   fo_vars, pd_vars>>

ProduceInflectedWord(r) ==
    /\ cc_pc[r] = "start"
    /\ cc_req[r].parsed = "InflectedWord"
    /\ CCSearched(r, produce_inflected_word(cc_store, cc_out[r], cc_req[r]),
                  "done")

ProduceNormalized(r) ==
    /\ cc_pc[r] = "start"
    /\ cc_req[r].parsed = "Sentence"
    /\ CCSearched(r, produce_normalized(cc_store, cc_out[r], cc_req[r]),
                  "normalized")

ProduceInflected(r) ==
    /\ cc_pc[r] = "normalized"
    /\ CCSearched(r, produce_inflected(cc_store, cc_out[r], cc_req[r]),
                  "inflected")

ProduceSideChannel(r) ==
    /\ cc_pc[r] = "inflected"
    /\ cc_out' = [cc_out EXCEPT ![r] = produce_side_channel(cc_out[r], cc_req[r])]
    /\ cc_pc' = [cc_pc EXCEPT ![r] = "done"]
    /\ UNCHANGED <<cc_store, cc_req>>
    /\ UNCHANGED <<ob_vars, req_vars, sr_vars, part_vars, w_vars, mq_vars,
                   ws_vars, cp_vars, tg_vars, uid_vars, sg_vars, tp_vars,
                   fo_vars, pd_vars>>

CCNext ==
    \E r \in Requests :
        \/ ProduceNothing(r)
        \/ ProduceInflectedWord(r)
        \/ ProduceNormalized(r)
        \/ ProduceInflected(r)
        \/ ProduceSideChannel(r)

CCSpec == CCInit /\ [][CCNext]_vars

(***************************************************************************)
(* A pair of ids packed into a u16 and unpacked again                      *)
(***************************************************************************)
UidInit ==
    /\ uid_sense \in U8
    /\ uid_gloss \in U8
    /\ uid_pc = "pair"
    /\ uid_id = 0
    /\ uid_back = <<0, 0>>
    /\ ReqIdle
    /\ PartIdle
    /\ SRIdle
    /\ OBIdle
    /\ WidthIdle
    /\ MQIdle
    /\ WSIdle
    /\ CPIdle
    /\ TagIdle
    /\ CCIdle
    /\ SGIdle
    /\ TPIdle
    /\ FOIdle
    /\ PDIdle

ToUniqueId ==
    /\ uid_pc = "pair"
    /\ uid_id' = to_unique_id(uid_sense, uid_gloss)
    /\ uid_pc' = "id"
    /\ UNCHANGED <<uid_sense, uid_gloss, uid_back>>
    /\ UNCHANGED <<ob_vars, req_vars, sr_vars, part_vars, w_vars, mq_vars,
                   ws_vars, cp_vars, tg_vars, cc_vars, sg_vars, tp_vars,
                   fo_vars, pd_vars>>

FromUniqueId ==
    /\ uid_pc = "id"
    /\ uid_back' = from_unique_id(uid_id)
    /\ uid_pc' = "back"
    /\ UNCHANGED <<uid_sense, uid_gloss, uid_id>>
    /\ UNCHANGED <<ob_vars, req_vars, sr_vars, part_vars, w_vars, mq_vars,
                   ws_vars, cp_vars, tg_vars, cc_vars, sg_vars, tp_vars,
                   fo_vars, pd_vars>>

UidNext == ToUniqueId \/ FromUniqueId

UidSpec == UidInit /\ [][UidNext]_vars

(***************************************************************************)
(* An iterator over a word's senses and glosses, called again and again    *)
(***************************************************************************)
SGInit ==
    /\ sg_word \in Words
    /\ sg_sense_pos = 0
    /\ sg_gloss_pos = 0
    /\ sg_yielded = <<>>
    /\ sg_panicked = FALSE
    /\ ReqIdle
    /\ PartIdle
    /\ SRIdle
    /\ OBIdle
    /\ WidthIdle
    /\ MQIdle
    /\ WSIdle
    /\ CPIdle
    /\ TagIdle
    /\ CCIdle
    /\ UidIdle
    /\ TPIdle
    /\ FOIdle
    /\ PDIdle

SenseGlossNext ==
    /\ ~sg_panicked
    /\ Len(SelectSeq(sg_yielded, LAMBDA i : ~i.some)) < MaxCallsAfterEnd
    /\ LET r == sense_gloss_next(sg_word, sg_sense_pos, sg_gloss_pos)
       IN  /\ sg_panicked' = (r.status = "panic")
           /\ sg_sense_pos' = r.sense_pos
           /\ sg_gloss_pos' = r.gloss_pos
           /\ sg_yielded' = IF r.status = "panic" THEN sg_yielded
                            ELSE Append(sg_yielded, r.item)
    /\ UNCHANGED sg_word
    /\ UNCHANGED <<ob_vars, req_vars, sr_vars, part_vars, w_vars, mq_vars,
                   ws_vars, cp_vars, tg_vars, cc_vars, uid_vars, tp_vars,
                   fo_vars, pd_vars>>

SGNext == SenseGlossNext

SGSpec == SGInit /\ [][SGNext]_vars

(***************************************************************************)
(* A text split into its parts                                             *)
(***************************************************************************)
TPInit ==
    /\ tp_text \in SeqsUpTo(TPAlphabet, MaxPartsTextLen)
    /\ tp_called = FALSE
    /\ tp_parts = <<>>
    /\ ReqIdle
    /\ PartIdle
    /\ SRIdle
    /\ OBIdle
    /\ WidthIdle
    /\ MQIdle
    /\ WSIdle
    /\ CPIdle
    /\ TagIdle
    /\ CCIdle
    /\ UidIdle
    /\ SGIdle
    /\ FOIdle
    /\ PDIdle

TextParts ==
    /\ ~tp_called
    /\ tp_called' = TRUE
    /\ tp_parts' = text_parts(tp_text)
    /\ UNCHANGED tp_text
    /\ UNCHANGED <<ob_vars, req_vars, sr_vars, part_vars, w_vars, mq_vars,
                   ws_vars, cp_vars, tg_vars, cc_vars, uid_vars, sg_vars,
                   fo_vars, pd_vars>>

TPNext == TextParts

TPSpec == TPInit /\ [][TPNext]_vars

(***************************************************************************)
(* Two words scored by a furigana ranker                                   *)
(***************************************************************************)
FOInit ==
    /\ fo_a \in FuriWords
    /\ fo_b \in FuriWords
    /\ fo_pos \in {NoPos} \cup {SomePos(p) : p \in PosSimples}
    /\ fo_morph \in FuriReadings
    /\ fo_ranker = "none"
    /\ fo_score_a = 0
    /\ fo_score_b = 0
    /\ ReqIdle
    /\ PartIdle
    /\ SRIdle
    /\ OBIdle
    /\ WidthIdle
    /\ MQIdle
    /\ WSIdle
    /\ CPIdle
    /\ TagIdle
    /\ CCIdle
    /\ UidIdle
    /\ SGIdle
    /\ TPIdle
    /\ PDIdle

FuriOrder ==
    /\ fo_ranker = "none"
    /\ fo_ranker' = "furi_order"
    /\ fo_score_a' = furi_order(fo_a, fo_pos, fo_morph)
    /\ fo_score_b' = furi_order(fo_b, fo_pos, fo_morph)
    /\ UNCHANGED <<fo_a, fo_b, fo_pos, fo_morph>>
    /\ UNCHANGED <<ob_vars, req_vars, sr_vars, part_vars, w_vars, mq_vars,
                   ws_vars, cp_vars, tg_vars, cc_vars, uid_vars, sg_vars,
                   tp_vars, pd_vars>>

WordFuriOrder ==
    /\ fo_ranker = "none"
    /\ fo_ranker' = "word_furi_order"
    /\ fo_score_a' = word_furi_order(fo_a, fo_pos, fo_morph)
    /\ fo_score_b' = word_furi_order(fo_b, fo_pos, fo_morph)
    /\ UNCHANGED <<fo_a, fo_b, fo_pos, fo_morph>>
    /\ UNCHANGED <<ob_vars, req_vars, sr_vars, part_vars, w_vars, mq_vars,
                   ws_vars, cp_vars, tg_vars, cc_vars, uid_vars, sg_vars,
                   tp_vars, pd_vars>>

FONext == FuriOrder \/ WordFuriOrder

FOSpec == FOInit /\ [][FONext]_vars

(***************************************************************************)
(* produce, stage by stage, for one request                                *)
(***************************************************************************)
\* A Sentence has at least one word and an InflectedWord is one part
PDInit ==
    /\ pd_parsed \in ParseResults
    /\ pd_parts \in SeqsUpTo(SentenceParts, MaxWords)
    /\ pd_parsed = "None" => pd_parts = <<>>
    /\ pd_parsed = "InflectedWord" => Len(pd_parts) = 1
    /\ pd_parsed = "Sentence" => Len(pd_parts) >= 1
    /\ pd_word_index \in 0..MaxWordIndex
    /\ pd_limit \in Limits
    /\ pd_store \in SUBSET RequestWords
    /\ pd_pc = "start"
    /\ pd_out = NewOutputBuilder
    /\ pd_log = <<>>
    /\ ReqIdle
    /\ PartIdle
    /\ SRIdle
    /\ OBIdle
    /\ WidthIdle
    /\ MQIdle
    /\ WSIdle
    /\ CPIdle
    /\ TagIdle
    /\ CCIdle
    /\ UidIdle
    /\ SGIdle
    /\ TPIdle
    /\ FOIdle

PDRequest == selected_request(pd_parsed, pd_parts, pd_word_index, pd_limit)

\* A stage that ran a search: the builder after it and the texts it searched
PDSearched(res, pc) ==
    /\ pd_out' = res.out
    /\ pd_log' = pd_log \o [i \in DOMAIN res.searched |->
                               [op |-> "find_to", text |-> res.searched[i]]]
    /\ pd_pc' = pc
    /\ UNCHANGED <<pd_parsed, pd_parts, pd_word_index, pd_limit, pd_store>>
    /\ UNCHANGED <<ob_vars, req_vars, sr_vars, part_vars, w_vars, mq_vars,
                   ws_vars, cp_vars, tg_vars, cc_vars, uid_vars, sg_vars,
                   tp_vars, fo_vars>>

PDNothing ==
    /\ pd_pc = "start"
    /\ pd_parsed = "None"
    /\ pd_pc' = "done"
    /\ UNCHANGED <<pd_parsed, pd_parts, pd_word_index, pd_limit, pd_store,
                   pd_out, pd_log>>
    /\ UNCHANGED <<ob_vars, req_vars, sr_vars, part_vars, w_vars, mq_vars,
                   ws_vars, cp_vars, tg_vars, cc_vars, uid_vars, sg_vars,
                   tp_vars, fo_vars>>

PDInflectedWord ==
    /\ pd_pc = "start"
    /\ pd_parsed = "InflectedWord"
    /\ PDSearched(produce_inflected_word(pd_store, pd_out, PDRequest), "done")

PDNormalized ==
    /\ pd_pc = "start"
    /\ pd_parsed = "Sentence"
    /\ PDSearched(produce_normalized(pd_store, pd_out, PDRequest),
                  "normalized")

PDInflected ==
    /\ pd_pc = "normalized"
    /\ PDSearched(produce_inflected(pd_store, pd_out, PDRequest), "inflected")

PDSideChannel ==
    /\ pd_pc = "inflected"
    /\ pd_out' = produce_side_channel(pd_out, PDRequest)
    /\ pd_log' = Append(pd_log, [op |-> "side_channel", text |-> ""])
    /\ pd_pc' = "done"
    /\ UNCHANGED <<pd_parsed, pd_parts, pd_word_index, pd_limit, pd_store>>
    /\ UNCHANGED <<ob_vars, req_vars, sr_vars, part_vars, w_vars, mq_vars,
                   ws_vars, cp_vars, tg_vars, cc_vars, uid_vars, sg_vars,
                   tp_vars, fo_vars>>

PDNext ==
    \/ PDNothing
    \/ PDInflectedWord
    \/ PDNormalized
    \/ PDInflected
    \/ PDSideChannel

PDSpec == PDInit /\ [][PDNext]_vars

\* The word search under weak fairness: a search that can go on does
WSLiveSpec == WSSpec /\ WF_vars(WSNext)

(***************************************************************************)
(* Claims about the OutputBuilder                                          *)
(***************************************************************************)
\* The identities pushed so far that the filter lets through
PushedItems == {ob_pushed[i].item : i \in {j \in DOMAIN ob_pushed : ob_pushed[j].item \notin ob_filter}}

\* The highest relevance ever pushed for identity it
BestRelevance(it) ==
    LET rs == {ob_pushed[i].relevance : i \in {j \in DOMAIN ob_pushed : ob_pushed[j].item = it}}
    IN  CHOOSE r \in rs : \A q \in rs : q <= r

\* The best-scored copy of identity it: its highest relevance, at the position
\* where that relevance was pushed first
BestCopy(it) ==
    LET r == BestRelevance(it)
        at == {i \in DOMAIN ob_pushed : ob_pushed[i].item = it /\ ob_pushed[i].relevance = r}
    IN  [item |-> it, relevance |-> r, seq |-> CHOOSE i \in at : \A j \in at : i <= j]

\* The top k of the pushes by relevance, ties ranked by first insertion, every
\* identity counted once by its best copy
TopK(k) ==
    LET cands == {BestCopy(it) : it \in PushedItems}
    IN  {c \in cands : Cardinality({d \in cands : Before(d, c)}) < k}

\* C1: an OutputBuilder created with limit k > 0 holds at most k items in every
\* reachable state, whatever is pushed.
C1_AtMostLimit == ob_limit > 0 => Cardinality(ob_p) <= ob_limit

C1_Witness ==
    /\ Cardinality(PushedItems) > ob_limit
    /\ Cardinality(ob_p) = ob_limit

\* C2: with a filter that rejects nothing, the content after any sequence of
\* pushes is exactly the top k of that sequence by relevance, equal relevances
\* ranked by first insertion; the content is a function of the sequence.
C2_TopK == ob_filter = {} => ob_p = TopK(ob_limit)

C2_Witness ==
    /\ ob_filter = {}
    /\ Cardinality(PushedItems) > ob_limit
    /\ \E i, j \in DOMAIN ob_pushed :
          /\ i < j
          /\ ob_pushed[i].item # ob_pushed[j].item
          /\ ob_pushed[i].relevance = ob_pushed[j].relevance
          /\ \E e \in ob_p : e.item = ob_pushed[i].item /\ e.seq = i
          /\ \A e \in ob_p : e.item # ob_pushed[j].item

\* C3: no two held items are equal by identity, and a held identity carries the
\* highest relevance ever pushed for it.
C3_UniqueBest ==
    /\ \A e, f \in ob_p : e.item = f.item => e = f
    /\ \A e \in ob_p : e.relevance = BestRelevance(e.item)

C3_Witness ==
    \E i, j \in DOMAIN ob_pushed :
        /\ i < j
        /\ ob_pushed[i].item = ob_pushed[j].item
        /\ ob_pushed[i].relevance < ob_pushed[j].relevance
        /\ \E e \in ob_p : e.item = ob_pushed[j].item /\ e.seq = j

\* C4: push returns false, leaving the content and the remaining capacity as
\* they were, exactly when the filter marks the item as filtered out; any other
\* item is inserted into the container and push returns true.
C4_PushFrame ==
    [][ob_pushed' # ob_pushed =>
        LET ri == ob_pushed'[Len(ob_pushed')]
        IN  /\ (ob_ret' = FALSE) <=> (ri.item \in ob_filter)
            /\ ri.item \in ob_filter =>
                  /\ ob_p' = ob_p
                  /\ ob_limit' - Cardinality(ob_p') = ob_limit - Cardinality(ob_p)
            /\ ri.item \notin ob_filter =>
                  /\ ob_ret' = TRUE
                  /\ ob_p' = ContainerInsert(ob_p, ob_limit, ri, Len(ob_pushed'))]_vars

C4_Witness ==
    /\ ob_pushed # <<>>
    /\ ob_ret = FALSE
    /\ ob_p # {}
    /\ \E i \in DOMAIN ob_pushed : ob_pushed[i].item \notin ob_filter

(***************************************************************************)
(* Claims about the completion request                                     *)
(***************************************************************************)
\* The length in code points of s without its leading and trailing blanks
TrimmedLen(s) ==
    LET solid == {i \in DOMAIN s : ~is_whitespace(s[i])}
    IN  IF solid = {} THEN 0
        ELSE (CHOOSE i \in solid : \A j \in solid : j <= i)
             - (CHOOSE i \in solid : \A j \in solid : i <= j) + 1

\* C5: validation accepts an input iff its trimmed length in code points is at
\* most 37 and at least 1, length 0 being accepted only with the hashtag flag;
\* every rejection is BadRequest.
C5_Validation ==
    req_valid # "pending" =>
        /\ req_valid \in {"Ok", "BadRequest"}
        /\ req_valid = "Ok" <=>
              /\ TrimmedLen(req_input) <= 37
              /\ (TrimmedLen(req_input) >= 1 \/ req_hashtag)

C5_Witness ==
    /\ req_valid = "BadRequest"
    /\ TrimmedLen(req_input) = 38
    /\ Len(req_input) > 38

\* C6: for every input classified Japanese that ends with the fullwidth letter
\* n, the query adjust produces ends with the hiragana n.
C6_EndsWithHiraganaN ==
    (/\ req_lang = "Japanese"
     /\ ends_with(req_input, FW_N)
     /\ req_adjusted.status = "ok")
        => ends_with(req_adjusted.input, HIRA_N)

\* C7: adjust never fails or panics, whatever the input ends with.
C7_AdjustNeverPanics == req_adjusted.status # "panic"

(***************************************************************************)
(* Claims about the sentence-reader producer                               *)
(***************************************************************************)
\* C8: if word_exists(q) is true, should_run returns false for every parse
\* result of q (None, InflectedWord or Sentence).
C8_ExistingWordNeverRuns ==
    (sr_asked /\ sr_word_exists) => sr_should_run = FALSE

\* C8 as amended: if word_exists(q) is true, should_run returns false for the
\* parse results None and Sentence; for an InflectedWord it returns true for
\* every non-empty Japanese query of normal form that is not a regex, whether
\* or not the word exists.
C8_ExistingWordNoSentence ==
    sr_asked =>
        /\ (sr_word_exists /\ sr_parsed # "InflectedWord") => sr_should_run = FALSE
        /\ (/\ sr_parsed = "InflectedWord"
            /\ sr_q_lang = "Japanese"
            /\ sr_form = "Normal"
            /\ ~sr_is_regex
            /\ sr_query_str # <<>>) => sr_should_run = TRUE

C8_Witness ==
    /\ sr_asked
    /\ sr_should_run = FALSE
    /\ sr_word_exists
    /\ sr_parsed = "Sentence"
    /\ sr_q_lang = "Japanese"
    /\ sr_form = "Normal"
    /\ ~sr_is_regex
    /\ Len(sr_query_str) > NoSentenceLen

(***************************************************************************)
(* Claims about the furigana of a part                                     *)
(***************************************************************************)
\* How often c occurs in s
Count(c, s) == Cardinality({i \in DOMAIN s : s[i] = c})

\* The kanji sides of the pairs of an encoded furigana string, in order
KanjiSides(f) ==
    LET segs == from_str(f)
    IN  concat([i \in DOMAIN segs |-> IF segs[i].has_kanji THEN segs[i].kanji ELSE <<>>])

\* The surface an encoded furigana string stands for: the kanji sides of its
\* pairs and its plain runs, in order
Decode(f) ==
    LET segs == from_str(f)
    IN  concat([i \in DOMAIN segs |-> IF segs[i].has_kanji THEN segs[i].kanji ELSE segs[i].kana])

\* Every kanji of surface is on the kanji side of a pair of f
Covers(f, surface) ==
    \A i \in DOMAIN surface :
        is_kanji(surface[i]) => Count(surface[i], surface) <= Count(surface[i], KanjiSides(f))

\* C9: after set_furigana the furigana of the part is None, or every kanji of
\* the part's surface is covered by the kanji side of a pair of it.
C9_FullCoverageOrNone ==
    part_set =>
        \/ ~part_furigana.some
        \/ Covers(part_furigana.text, get_inflected(part_morphemes))

\* C10: whenever set_furigana stores Some(f), decoding f gives get_inflected().
C10_RoundTrip ==
    (part_set /\ part_furigana.some) =>
        Decode(part_furigana.text) = get_inflected(part_morphemes)

(***************************************************************************)
(* Claims about width folding                                              *)
(***************************************************************************)
IsAscii(s) == \A i \in DOMAIN s : s[i] >= 0 /\ s[i] <= \H7F

IsFullwidthAscii(s) == \A i \in DOMAIN s : s[i] >= \HFF01 /\ s[i] <= \HFF5E

TextGrams == Wordgrams(padded(mq_text, NATIVE_NGRAM - 1), NATIVE_NGRAM)

KnownIds == {get_id(mq_dict, TextGrams[i]) : i \in DOMAIN TextGrams} \ {0}

\* C12: a compiled TermSet is strictly ascending (sorted, no term-id twice)
\* and holds the ids of the known n-grams of the text; a text with no known
\* n-gram compiles to None.
C12_TermSetSortedUnique ==
    mq_called =>
        IF KnownIds = {}
        THEN mq_query = NoQuery
        ELSE /\ mq_query.some
             /\ \A i, j \in DOMAIN mq_query.terms :
                    i < j => mq_query.terms[i] < mq_query.terms[j]
             /\ {mq_query.terms[i] : i \in DOMAIN mq_query.terms} = KnownIds

\* A known n-gram occurs twice in the text and a second known one has the
\* smaller id although it occurs later
C12_Witness ==
    /\ mq_called
    /\ mq_query.some
    /\ \E i, j, k \in DOMAIN TextGrams :
          /\ i < j /\ j < k
          /\ TextGrams[i] = TextGrams[j]
          /\ get_id(mq_dict, TextGrams[i]) = 2
          /\ get_id(mq_dict, TextGrams[k]) = 1

(***************************************************************************)
(* Claims about the word search                                            *)
(***************************************************************************)
\* C13: native_results never returns Err(NotFound): when native_search
\* raises NotFound (a query that is neither marked nor written Japanese)
\* the result is Ok with no words and count 0; any other error of
\* native_search is returned as it is.
C13_NotFoundSwallowed ==
    ws_pc # "native" =>
        LET ns == native_search(ws_q, ws_env, ws_q.query, TRUE)
        IN  /\ ws_native.status # "NotFound"
            /\ (ws_q.language # "Japanese" /\ ~str_is_japanese(ws_q.query)) =>
                  /\ ws_native.status = "Ok"
                  /\ ws_native.data.words = {}
                  /\ ws_native.data.count = 0
            /\ ns.status \notin {"Ok", "NotFound"} =>
                  ws_native.status = ns.status

\* native_search has raised NotFound for a foreign query and native_results
\* has returned
C13_Witness ==
    /\ ws_pc = "gloss"
    /\ ws_q.language = "Foreign"
    /\ ws_q.query = ROMAJI_TA
    /\ native_search(ws_q, ws_env, ws_q.query, TRUE).status = "NotFound"
    /\ ws_native = Ok(DefaultResultData)

\* C14: the searched_query of a finished word search is a text that was
\* looked up: one of the texts the native search took when it ran, and the
\* text gloss_results searched (never the empty string) when the gloss or
\* romaji-fallback path answered a query the native search did not take.
C14_SearchedQueryEchoed ==
    (ws_pc = "done" /\ ws_result.status = "Ok") =>
        LET ns == native_search(ws_q, ws_env, ws_q.query, TRUE)
        IN  IF ns.status = "Ok"
            THEN ws_result.data.searched_query \in ns.queries
            ELSE ws_gloss.count > 0 =>
                    /\ ws_result.data.searched_query = ws_gloss.searched_query
                    /\ ws_result.data.searched_query # <<>>

(***************************************************************************)
(* Claims about word completion                                            *)
(***************************************************************************)
\* The first attempt answered an empty list for a query all in hiragana
RetryCase ==
    /\ cp_response.some
    /\ cp_response.list = <<>>
    /\ \A i \in DOMAIN cp_query.query_str :
          cp_query.query_str[i] >= \H3040 /\ cp_query.query_str[i] <= \H309F

\* C15: suggestions makes a second attempt, with the katakana conversion of
\* the query, exactly when the first attempt returned an empty list and the
\* query is all hiragana, and then returns the second attempt's result; in
\* every other case it makes one attempt and returns that attempt's result.
C15_KatakanaRetry ==
    /\ cp_pc = "first" => cp_tried = <<>>
    /\ cp_pc = "second" => cp_tried = <<cp_query.query_str>> /\ RetryCase
    /\ cp_pc = "done" =>
          IF RetryCase
          THEN /\ cp_tried = <<cp_query.query_str,
                               to_katakana(cp_query.query_str)>>
               /\ cp_tried[2] # cp_tried[1]
               /\ \A i \in DOMAIN cp_tried[2] :
                     cp_tried[2][i] >= \H30A0 /\ cp_tried[2][i] <= \H30FF
               /\ cp_ret.some = cp_answers[2].some
               /\ cp_ret.suggestions = cp_answers[2].list
          ELSE /\ cp_tried = <<cp_query.query_str>>
               /\ cp_ret.some = cp_response.some
               /\ cp_ret.suggestions = cp_response.list

\* The katakana attempt was made and its suggestions were returned
C15_Witness ==
    /\ cp_pc = "done"
    /\ Len(cp_tried) = 2
    /\ cp_response = SomeSuggestions(<<>>)
    /\ cp_ret.some
    /\ cp_ret.suggestions # <<>>

(***************************************************************************)
(* Claims about the tag-only sentence search                               *)
(***************************************************************************)
\* The first tag of the query that may stand alone, as a set of at most one
FilterTags ==
    {tg_query.tags[i] : i \in {j \in DOMAIN tg_query.tags :
        /\ tg_query.tags[j].kind \in {"Jlpt", "IrregularIruEru"}
        /\ \A k \in 1..(j - 1) :
              tg_query.tags[k].kind \notin {"Jlpt", "IrregularIruEru"}}}

\* C16: the tag-only sentence search never panics and answers every contract
\* violation with Err(Unexpected): a query with no tag that may stand alone,
\* and a JLPT tag whose level is outside 1..5.
C16_ViolationsAreUnexpected ==
    tg_called =>
        /\ tg_result.status # "panic"
        /\ FilterTags = {} => tg_result.status = "Unexpected"
        /\ \A t \in FilterTags :
              (t.kind = "Jlpt" /\ ~(t.level >= 1 /\ t.level <= 5)) =>
                  tg_result.status = "Unexpected"

(***************************************************************************)
(* Claims about concurrent requests                                        *)
(***************************************************************************)
\* C17: no step of a request changes the shared store, a step changes the
\* OutputBuilder of the one request that takes it and of no other, and a
\* finished request holds what the same request produces alone on the store,
\* whatever the other requests did in between.
C17_RequestsIndependent ==
    /\ [](\A r \in Requests :
            cc_pc[r] = "done" =>
                cc_out[r] = produce(cc_store, NewOutputBuilder, cc_req[r]))
    /\ [][/\ cc_store' = cc_store
          /\ \A r \in Requests :
                cc_out'[r] # cc_out[r] => cc_pc'[r] # cc_pc[r]
          /\ \A r, s \in Requests :
                (cc_pc'[r] # cc_pc[r] /\ cc_pc'[s] # cc_pc[s]) => r = s]_vars

\* Both requests searched the same stored word, their steps interleaved, and
\* both have finished with a hit
C17_Witness ==
    /\ \A r \in Requests :
          /\ cc_pc[r] = "done"
          /\ cc_req[r].parsed = "Sentence"
          /\ cc_req[r].normalized = "a"
          /\ cc_out[r].p # {}
    /\ "a" \in cc_store

(***************************************************************************)
(* Claims about the unique id of a gloss                                   *)
(***************************************************************************)
\* C18: for every sense_id and gloss_id of a u8, the id of the pair fits in
\* 16 bits and is 256 * sense_id + gloss_id, a different number for every
\* pair, and from_unique_id gives the pair back.
C18_UniqueIdRoundTrip ==
    /\ uid_pc # "pair" =>
          /\ uid_id >= 0 /\ uid_id <= 65535
          /\ uid_id = 256 * uid_sense + uid_gloss
    /\ uid_pc = "back" => uid_back = <<uid_sense, uid_gloss>>

\* The largest pair, whose id has all sixteen bits set, came back
C18_Witness ==
    /\ uid_pc = "back"
    /\ uid_sense = 255
    /\ uid_gloss = 255
    /\ uid_id = 65535
    /\ uid_back = <<255, 255>>

(***************************************************************************)
(* Claims about SenseGlossIter                                             *)
(***************************************************************************)
\* Every (sense, gloss) pair of the word, in sense order and within a sense
\* in gloss order
RECURSIVE AllPairs(_, _)
AllPairs(senses, from) ==
    IF from > Len(senses) THEN <<>>
    ELSE [g \in 1..Len(senses[from]) |->
             SomeItem(from - 1, g - 1, senses[from][g])]
         \o AllPairs(senses, from + 1)

\* C19: for a word whose senses all have a gloss, the calls of next return
\* the (sense, gloss) pairs in sense order and within a sense in gloss order,
\* each once, and None from then on; for a word without senses the first
\* call returns None.
C19_EveryPairOnceInOrder ==
    (\A s \in DOMAIN sg_word : sg_word[s] # <<>>) =>
        LET pairs == AllPairs(sg_word, 1)
        IN  /\ ~sg_panicked
            /\ \A i \in DOMAIN sg_yielded :
                  sg_yielded[i] = IF i <= Len(pairs) THEN pairs[i] ELSE NoItem

\* Two senses of two glosses each were yielded, then None twice
C19_Witness ==
    /\ Len(sg_word) = 2
    /\ Len(sg_word[1]) = 2
    /\ Len(sg_word[2]) = 2
    /\ Len(sg_yielded) = 6
    /\ sg_yielded[4].some
    /\ ~sg_yielded[5].some
    /\ ~sg_yielded[6].some

(***************************************************************************)
(* Claims about text_parts                                                 *)
(***************************************************************************)
\* The parts are non-empty, their concatenation is the text, the characters
\* of a part share one character type and two adjacent parts differ in type
MaximalTypeRuns(text, parts) ==
    /\ concat(parts) = text
    /\ \A i \in DOMAIN parts :
          /\ parts[i] # <<>>
          /\ \A j \in DOMAIN parts[i] :
                get_text_type(parts[i][j]) = get_text_type(parts[i][1])
    /\ \A i \in 1..(Len(parts) - 1) :
          get_text_type(parts[i][1]) # get_text_type(parts[i + 1][1])

\* C20 as stated: the parts of every string are its maximal runs of one
\* character type, and every kana-only string yields a single part.
C20_KanaOnlyIsOnePart ==
    tp_called =>
        /\ MaximalTypeRuns(tp_text, tp_parts)
        /\ str_is_kana(tp_text) => Len(tp_parts) = 1

\* C20, amended: the parts of every string are its maximal runs of one
\* character type, and every non-empty kana-only string yields a single
\* part (the empty string yields none).
C20_MaximalTypeRuns ==
    tp_called =>
        /\ MaximalTypeRuns(tp_text, tp_parts)
        /\ (tp_text # <<>> /\ str_is_kana(tp_text)) => Len(tp_parts) = 1
        /\ tp_text = <<>> => tp_parts = <<>>

\* "あ行ｋ、": a kana part, one part of a kanji and a fullwidth letter, and a
\* symbol part
C20_Witness ==
    /\ tp_called
    /\ tp_text = <<HIRA_A, KANJI_IKU, FW_K, IDEOGRAPHIC_COMMA>>
    /\ tp_parts = <<<<HIRA_A>>, <<KANJI_IKU, FW_K>>, <<IDEOGRAPHIC_COMMA>>>>

(***************************************************************************)
(* Claims about the furigana rankers                                       *)
(***************************************************************************)
\* The two words agree on everything the rankers read but the reading
SameOtherFeatures ==
    /\ fo_pos.some => (has_pos(fo_a, fo_pos.pos) <=> has_pos(fo_b, fo_pos.pos))
    /\ fo_a.common = fo_b.common
    /\ fo_a.jlpt = fo_b.jlpt
    /\ reading_freq_bump(fo_a) = reading_freq_bump(fo_b)

\* C21: of two words that agree on POS agreement, commonness, JLPT tag and
\* reading-frequency bump, the one whose reading equals the morpheme scores
\* strictly higher under both rankers.
C21_ExactReadingRanksHigher ==
    (/\ fo_ranker # "none"
     /\ SameOtherFeatures
     /\ fo_a.reading = fo_morph
     /\ fo_b.reading # fo_morph) => fo_score_a > fo_score_b

\* The POS mismatch penalty saturates at zero for the inexact word under
\* word_furi_order, both words carrying a bump of 10
C21_Witness ==
    /\ fo_ranker = "word_furi_order"
    /\ SameOtherFeatures
    /\ fo_a.reading = fo_morph
    /\ fo_b.reading # fo_morph
    /\ fo_pos.some
    /\ ~has_pos(fo_b, fo_pos.pos)
    /\ reading_freq_bump(fo_b) = 10
    /\ fo_score_b = 0
    /\ fo_score_a = 80

(***************************************************************************)
(* Claims about what adjust removes                                        *)
(***************************************************************************)
\* The input after the replacement of the fullwidth n, with the roman letters
\* among its last two characters deleted
WithoutTrailingRoman(s) ==
    LET keep(i) == ~(i > Len(s) - 2 /\ is_roman_letter(s[i]))
        RECURSIVE kept(_)
        kept(i) == IF i > Len(s) THEN <<>>
                   ELSE IF keep(i) THEN <<s[i]>> \o kept(i + 1)
                   ELSE kept(i + 1)
    IN  kept(1)

\* C22: for an input classified Japanese, longer than one character, whose
\* last two characters are Japanese, adjust deletes exactly the roman
\* letters among the last two characters and keeps every other character;
\* in all other cases the input is unchanged apart from the replacement of
\* the fullwidth n.
C22_OnlyTrailingRomanRemoved ==
    req_adjusted.status = "ok" =>
        LET replaced == IF req_lang = "Japanese" /\ ends_with(req_input, FW_N)
                        THEN replace_n(req_input)
                        ELSE req_input
        IN  IF /\ req_lang = "Japanese"
               /\ real_string_len(req_input) > 1
               /\ \A i \in (Len(replaced) - 1)..Len(replaced) :
                     is_japanese(replaced[i])
            THEN req_adjusted.input = WithoutTrailingRoman(replaced)
            ELSE req_adjusted.input = replaced

(***************************************************************************)
(* Claims about the length gate of the sentence-reader producer            *)
(***************************************************************************)
\* C23 as stated: the producer runs only for a Japanese query of normal,
\* non-regex form that is longer than 3 code points, whatever the parse
\* result.
C23_ShortQueriesNeverRun ==
    (sr_asked /\ sr_should_run) =>
        /\ sr_q_lang = "Japanese"
        /\ sr_form = "Normal"
        /\ ~sr_is_regex
        /\ Len(sr_query_str) > 3

\* C23, amended: the producer runs only for a Japanese query of normal,
\* non-regex form; when the parse result is a Sentence it runs only if the
\* query is longer than 3 code points, and when the parse result is an
\* InflectedWord it runs at every length from 1 on.
C23_ShortSentencesNeverRun ==
    sr_asked =>
        /\ sr_should_run =>
              /\ sr_q_lang = "Japanese"
              /\ sr_form = "Normal"
              /\ ~sr_is_regex
              /\ sr_parsed # "None"
              /\ sr_parsed = "Sentence" => Len(sr_query_str) > 3
        /\ (/\ sr_parsed = "InflectedWord"
            /\ sr_q_lang = "Japanese"
            /\ sr_form = "Normal"
            /\ ~sr_is_regex
            /\ Len(sr_query_str) >= 1) => sr_should_run

\* An inflected word of two characters runs, and so the gate was asked about
\* a query the stated claim excludes
C23_Witness ==
    /\ sr_asked
    /\ sr_should_run
    /\ sr_parsed = "InflectedWord"
    /\ Len(sr_query_str) = 2

(***************************************************************************)
(* Claims about produce                                                    *)
(***************************************************************************)
\* The word the request selects: the part at the word index, the last part
\* for an index past the end
SelectedWord ==
    IF pd_word_index < Len(pd_parts) THEN pd_parts[pd_word_index + 1]
    ELSE pd_parts[Len(pd_parts)]

FindTo(text) == [op |-> "find_to", text |-> text]

\* The searches of a sentence: the normalized form, then the inflected form
\* if it differs
SentenceSearches ==
    <<FindTo(SelectedWord.normalized)>> \o
        (IF SelectedWord.inflected # SelectedWord.normalized
         THEN <<FindTo(SelectedWord.inflected)>>
         ELSE <<>>)

\* The hits pushed for the texts searched, the store holding each word once
HitsOf(log) ==
    {ResultItem(log[i].text, 1) :
        i \in {j \in DOMAIN log : log[j].op = "find_to"
                                  /\ log[j].text \in pd_store}}

\* C24: for a Sentence, produce searches the normalized form of the selected
\* word first, then its inflected form if and only if it differs, and sets
\* the side channel (query = normalized form, inflection information,
\* raw_query = inflected form) only after both; for an InflectedWord it runs
\* one search, on the normalized form, and attaches no SentenceInfo.
C24_SearchesThenSideChannel ==
    /\ pd_parsed = "Sentence" =>
          /\ pd_pc = "start" => pd_log = <<>>
          /\ pd_pc = "normalized" =>
                pd_log = <<FindTo(SelectedWord.normalized)>>
          /\ pd_pc = "inflected" => pd_log = SentenceSearches
          /\ pd_pc # "done" =>
                pd_out.output_add = NewOutputBuilder.output_add
          /\ pd_pc = "done" =>
                /\ pd_log = Append(SentenceSearches,
                                   [op |-> "side_channel", text |-> ""])
                /\ pd_out.output_add.sentence
                /\ pd_out.output_add.query = SelectedWord.normalized
                /\ pd_out.output_add.raw_query = SelectedWord.inflected
                /\ pd_out.output_add.inflection = SelectedWord.has_inflections
    /\ (pd_parsed = "InflectedWord" /\ pd_pc = "done") =>
          /\ pd_log = <<FindTo(pd_parts[1].normalized)>>
          /\ ~pd_out.output_add.sentence
    /\ Cardinality(pd_out.p) <= pd_limit
    /\ pd_limit >= 2 => {r.item : r \in pd_out.p} = {r.item : r \in HitsOf(pd_log)}

\* A sentence whose selected word is inflected and stored in both forms: two
\* searches, two hits, then the side channel
C24_Witness ==
    /\ pd_parsed = "Sentence"
    /\ pd_pc = "done"
    /\ Len(pd_log) = 3
    /\ SelectedWord.inflected # SelectedWord.normalized
    /\ Cardinality(pd_out.p) = 2
    /\ pd_out.output_add.inflection

\* C29: whenever produce attaches a SentenceInfo, its index is a position in
\* the parts and the part there is the selected word, the one whose normalized
\* form is the query of the SentenceInfo, for every word index requested.
C29_IndexSelectsTheWord ==
    (pd_pc = "done" /\ pd_out.output_add.sentence) =>
        /\ pd_out.output_add.index < word_count(pd_parts)
        /\ pd_parts[pd_out.output_add.index + 1].normalized =
              pd_out.output_add.query

(***************************************************************************)
(* Claims about pool underflow in the furigana merge                       *)
(***************************************************************************)
\* The furigana segments of a morpheme ask for more kana runs or more kanji
\* than its surface has
PoolUnderflows(src, furi) ==
    LET parts == from_str(furi)
        plain == {i \in DOMAIN parts : ~parts[i].has_kanji}
        kanji == concat([i \in DOMAIN parts |-> parts[i].kanji])
    IN  \/ Cardinality(plain) > Len(all_words_with_ct(src, "Kana"))
        \/ Len(kanji) > Len(concat(all_words_with_ct(src, "Kanji")))

\* The morpheme is merged: its surface has a kanji and its lookup gave
\* furigana with a pair in it
IsMerged(m) ==
    /\ str_has_kanji(m.surface)
    /\ m.lookup.some
    /\ \E i \in DOMAIN m.lookup.text : m.lookup.text[i] = PIPE

\* C25: if the kana-run pool or the kanji pool of a surface is exhausted
\* before all furigana segments of its morpheme are consumed, the part gets
\* no furigana, even when other morphemes of the part merged.
C25_UnderflowGivesNoFurigana ==
    (/\ part_set
     /\ \E i \in DOMAIN part_morphemes :
           /\ IsMerged(part_morphemes[i])
           /\ PoolUnderflows(part_morphemes[i].surface,
                             part_morphemes[i].lookup.text))
        => ~part_furigana.some

(***************************************************************************)
(* Claims about the searches native_search runs                            *)
(***************************************************************************)
\* The calls of native_search made so far
NativeCalls == {c \in {ws_trace.native, ws_trace.fallback} : c.called}

\* What C26 says of a call but for the wildcard of length 1: the regex
\* search is tried only for a regex query of length 2 or more or with a
\* kanji, its hits are returned alone, and without hits the native search
\* runs
RegexGate(c) ==
    /\ (\E i \in DOMAIN c.steps : c.steps[i] = "regex") =>
          /\ ws_env.regex_query
          /\ Len(c.query_str) >= 2 \/ str_has_kanji(c.query_str)
    /\ (c.steps # <<>> /\ c.steps[1] = "regex") =>
          IF ws_env.regex_hits
          THEN /\ c.steps = <<"regex">>
               /\ c.items # {}
               /\ \A h \in c.items : h.src = "regex"
          ELSE /\ c.steps = <<"regex", "native">>
               /\ \A h \in c.items : h.src = "native"

ShortWildcard(c) ==
    /\ ws_env.regex_query
    /\ Len(c.query_str) = 1
    /\ ~str_has_kanji(c.query_str)

\* C26 as stated: the regex gate, and every wildcard query of length 1
\* without kanji skips the regex search and goes to the native search.
C26_ShortWildcardSearchedNatively ==
    \A c \in NativeCalls :
        /\ RegexGate(c)
        /\ ShortWildcard(c) => c.steps = <<"native">>

\* C26, amended: the regex gate, and a wildcard query of length 1 without
\* kanji skips the regex search; it goes to the native search if the query
\* is marked or written Japanese, and otherwise native_search raises NotFound
\* without searching.
C26_RegexGate ==
    \A c \in NativeCalls :
        /\ RegexGate(c)
        /\ ShortWildcard(c) =>
              IF ws_q.language = "Japanese" \/ str_is_japanese(c.query_str)
              THEN c.steps = <<"native">>
              ELSE c.steps = <<>> /\ c.status = "NotFound"

\* The query "＊", written Japanese, went to the native search without a
\* regex search
C26_Witness ==
    /\ ws_trace.native.called
    /\ ws_q.query = <<FW_ASTERISK>>
    /\ ShortWildcard(ws_trace.native)
    /\ ws_trace.native.steps = <<"native">>

(***************************************************************************)
(* Claims about the romaji fallback and the language fallback              *)
(***************************************************************************)
\* C27: when the romaji fallback fires, the native search it runs searches
\* the hiragana conversion of the query, not the romaji the user typed.
C27_FallbackSearchesHiragana ==
    (/\ ws_trace.fallback.called
     /\ \E i \in DOMAIN ws_trace.fallback.steps :
           ws_trace.fallback.steps[i] = "native") =>
        /\ romaji_to_hiragana(ws_q.query) \in ws_trace.fallback.queries
        /\ romaji_to_hiragana(ws_q.query) # ws_q.query =>
              ws_q.query \notin ws_trace.fallback.queries

\* C28: gloss_results terminates: every word search comes to its end,
\* whatever languages are guessed.
C28_GlossResultsTerminates == <>(ws_pc = "done")

(***************************************************************************)
(* Claims about the JLPT sentence search                                   *)
(***************************************************************************)
\* The stored sentences of a level that have a translation in the user's
\* language, in store order
TranslatedOfLevel(level) ==
    SelectSeq(tg_sentences, LAMBDA s :
        s.jlpt = level /\ has_translation(s, tg_query.user_lang))

\* C30: a JLPT tag-only search returns the sentences of the level that have
\* a translation in the user's language, one page of at most page_size
\* items, with len counted before the page is cut, whether show_english is
\* on or off.
C30_JlptPageOfTranslated ==
    tg_called =>
        \A t \in FilterTags :
            (t.kind = "Jlpt" /\ t.level >= 1 /\ t.level <= 5) =>
                /\ tg_result.status = "Ok"
                /\ tg_result.result.len = Len(TranslatedOfLevel(t.level))
                /\ tg_result.result.len <= 10000
                /\ Len(tg_result.result.items) <= tg_query.page_size
                /\ tg_result.result.items =
                      take(skip(TranslatedOfLevel(t.level),
                                tg_query.page_offset),
                           tg_query.page_size)

====
